---- MODULE Spec2Model ----
(***************************************************************************)
(* Model of the MyTechFun filament viewer: the Excel ingestion pipeline    *)
(* (sanitizeString, sanitizeNumber, validateUrl, validateAndSanitizeRow,   *)
(* parseExcelFile).                                                        *)
(*                                                                         *)
(* JavaScript strings are sequences of one-character strings, so that the  *)
(* regular expressions of the sanitizer act on characters as they do in    *)
(* the code.                                                               *)
(***************************************************************************)
EXTENDS Integers, Sequences, FiniteSets, TLC

(***************************************************************************)
(* Bounds of the model.                                                    *)
(***************************************************************************)
\* number of fragments concatenated into one generated cell text
MaxFrags == 3
\* length of the generated arrays of numbers given to statistics.ts
MaxValues == 4
\* number of data rows (rows of index 2 onward) of a generated sheet
MaxDataRows == 2
\* number of handleFileUpload calls waiting for their FileReader at one time
MaxUploads == 2

(***************************************************************************)
(* Characters and strings.                                                 *)
(***************************************************************************)
UpperCase == <<"A","B","C","D","E","F","G","H","I","J","K","L","M",
               "N","O","P","Q","R","S","T","U","V","W","X","Y","Z">>
LowerCase == <<"a","b","c","d","e","f","g","h","i","j","k","l","m",
               "n","o","p","q","r","s","t","u","v","w","x","y","z">>
Digits == <<"0","1","2","3","4","5","6","7","8","9">>

Range(f) == {f[i] : i \in DOMAIN f}

Min(S) == CHOOSE m \in S : \A k \in S : m <= k
Max(S) == CHOOSE m \in S : \A k \in S : m >= k

\* String.prototype.toLowerCase on one character
LowerChar(c) ==
  IF c \in Range(UpperCase)
  THEN LowerCase[CHOOSE i \in 1..26 : UpperCase[i] = c]
  ELSE c

\* String.prototype.toLowerCase
toLowerCase(s) == [i \in 1..Len(s) |-> LowerChar(s[i])]

\* the regular expression class \w
IsWordChar(c) == c \in Range(UpperCase) \cup Range(LowerCase) \cup Range(Digits) \cup {"_"}

\* the regular expression class \s (the white space of the model's alphabet)
IsSpaceChar(c) == c \in {" ", "\t", "\n"}

\* the pattern p occurs in s at position i (compared as written)
IsAt(s, i, p) ==
  /\ i >= 1
  /\ i + Len(p) - 1 <= Len(s)
  /\ \A k \in 1..Len(p) : s[i + k - 1] = p[k]

\* the pattern p (lower case) occurs in s at position i under the flag /i
IsAtCI(s, i, p) ==
  /\ i >= 1
  /\ i + Len(p) - 1 <= Len(s)
  /\ \A k \in 1..Len(p) : LowerChar(s[i + k - 1]) = p[k]

\* String.prototype.includes
includes(s, p) == \E i \in 1..(Len(s) + 1) : IsAt(s, i, p)

\* String.prototype.endsWith
endsWith(s, p) == Len(p) <= Len(s) /\ IsAt(s, Len(s) - Len(p) + 1, p)

\* String.prototype.trim
trim(s) ==
  LET keep == {i \in 1..Len(s) : ~IsSpaceChar(s[i])}
  IN IF keep = {} THEN <<>> ELSE SubSeq(s, Min(keep), Max(keep))

\* concatenation of a sequence of strings
RECURSIVE Concat(_)
Concat(ss) == IF ss = <<>> THEN <<>> ELSE Head(ss) \o Concat(Tail(ss))

(***************************************************************************)
(* sanitizeString: four global replacements and a trim.                    *)
(***************************************************************************)
STR_script_open  == <<"<","s","c","r","i","p","t">>
STR_script_close == <<"<","/","s","c","r","i","p","t",">">>
STR_javascript   == <<"j","a","v","a","s","c","r","i","p","t",":">>

\* /<script\b[^<]*(?:(?!<\/script>)<[^<]*)*<\/script>/gi at position i:
\* the length of the match, 0 when there is none.  After "<script" and the
\* word boundary, the body may hold any character but no '<' that starts
\* "</script>", so the match ends with the first closing tag.
ScriptMatchLen(s, i) ==
  IF /\ IsAtCI(s, i, STR_script_open)
     /\ (i + 7 > Len(s) \/ ~IsWordChar(s[i + 7]))
  THEN LET closes == {j \in (i + 7)..Len(s) : IsAtCI(s, j, STR_script_close)}
       IN IF closes = {} THEN 0 ELSE Min(closes) + 9 - i
  ELSE 0

\* /javascript:/gi at position i
JavascriptMatchLen(s, i) == IF IsAtCI(s, i, STR_javascript) THEN 11 ELSE 0

\* first position from k on whose character is not a word character
WordRunEnd(s, k) == Min({j \in k..(Len(s) + 1) : j = Len(s) + 1 \/ ~IsWordChar(s[j])})

\* first position from k on whose character is not white space
SpaceRunEnd(s, k) == Min({j \in k..(Len(s) + 1) : j = Len(s) + 1 \/ ~IsSpaceChar(s[j])})

\* /on\w+\s*=/gi at position i: \w+ and \s* are greedy, and giving back a
\* character never helps, since a word character is neither white space
\* nor '='
HandlerMatchLen(s, i) ==
  IF IsAtCI(s, i, <<"o","n">>)
  THEN LET w == WordRunEnd(s, i + 2)
           e == SpaceRunEnd(s, w)
       IN IF w > i + 2 /\ e <= Len(s) /\ s[e] = "="
          THEN e + 1 - i
          ELSE 0
  ELSE 0

\* String.prototype.replace(/.../g, ''): the leftmost match is removed and
\* the search goes on after it
RECURSIVE RemoveScript(_, _)
RemoveScript(s, i) ==
  LET starts == {c \in i..Len(s) : ScriptMatchLen(s, c) > 0}
  IN IF starts = {}
     THEN SubSeq(s, i, Len(s))
     ELSE LET c == Min(starts)
          IN SubSeq(s, i, c - 1) \o RemoveScript(s, c + ScriptMatchLen(s, c))

RECURSIVE RemoveJavascript(_, _)
RemoveJavascript(s, i) ==
  LET starts == {c \in i..Len(s) : JavascriptMatchLen(s, c) > 0}
  IN IF starts = {}
     THEN SubSeq(s, i, Len(s))
     ELSE LET c == Min(starts)
          IN SubSeq(s, i, c - 1) \o RemoveJavascript(s, c + JavascriptMatchLen(s, c))

RECURSIVE RemoveHandlers(_, _)
RemoveHandlers(s, i) ==
  LET starts == {c \in i..Len(s) : HandlerMatchLen(s, c) > 0}
  IN IF starts = {}
     THEN SubSeq(s, i, Len(s))
     ELSE LET c == Min(starts)
          IN SubSeq(s, i, c - 1) \o RemoveHandlers(s, c + HandlerMatchLen(s, c))

\* .replace(/[<>]/g, '')
IsNotAngle(c) == c \notin {"<", ">"}
RemoveAngles(s) == SelectSeq(s, IsNotAngle)

\* the string branch of sanitizeString
sanitizeText(s) ==
  trim(RemoveAngles(RemoveHandlers(RemoveJavascript(RemoveScript(s, 1), 1), 1)))


(***************************************************************************)
(* JavaScript values: cells of a raw sheet and values of a record.         *)
(* A finite number is the decimal m / 10^d; d is negative for the whole    *)
(* numbers that 32 bits do not hold.                                       *)
(***************************************************************************)
Undefined == [t |-> "undefined", v |-> <<>>]
Null      == [t |-> "null", v |-> <<>>]
Str(s)    == [t |-> "string", v |-> s]
Bool(b)   == [t |-> "boolean", v |-> b]
Dec(m, d) == [t |-> "number", v |-> [k |-> "fin", m |-> m, d |-> d]]
Num(n)    == Dec(n, 0)
NaN       == [t |-> "number", v |-> [k |-> "nan", m |-> 0, d |-> 0]]
Infinity  == [t |-> "number", v |-> [k |-> "inf", m |-> 1, d |-> 0]]
MinusInfinity == [t |-> "number", v |-> [k |-> "inf", m |-> 0 - 1, d |-> 0]]

typeof(x) == x.t

\* isFinite on a number
isFinite(x) == x.t = "number" /\ x.v.k = "fin"

\* ToBoolean: what `!x`, `x || y` and `x && y` test
Truthy(x) ==
  CASE x.t = "undefined" -> FALSE
    [] x.t = "null"      -> FALSE
    [] x.t = "string"    -> x.v # <<>>
    [] x.t = "boolean"   -> x.v
    [] x.t = "number"    -> x.v.k = "inf" \/ (x.v.k = "fin" /\ x.v.m # 0)

RECURSIVE Pow10(_)
Pow10(d) == IF d = 0 THEN 1 ELSE 10 * Pow10(d - 1)

\* the decimal digits of a natural number, most significant first
RECURSIVE NatToDigits(_)
NatToDigits(n) ==
  IF n < 10 THEN <<Digits[n + 1]>> ELSE NatToDigits(n \div 10) \o <<Digits[(n % 10) + 1]>>

\* the digits of n on exactly w places
RECURSIVE NatToFixedDigits(_, _)
NatToFixedDigits(n, w) ==
  IF w = 0 THEN <<>> ELSE NatToFixedDigits(n \div 10, w - 1) \o <<Digits[(n % 10) + 1]>>

\* Number.prototype.toString for the numbers of the model
NumberToString(n) ==
  CASE n.k = "nan" -> <<"N","a","N">>
    [] n.k = "inf" -> (IF n.m < 0 THEN <<"-">> ELSE <<>>) \o <<"I","n","f","i","n","i","t","y">>
    [] n.k = "fin" ->
         LET a == IF n.m < 0 THEN 0 - n.m ELSE n.m
             p == IF n.d < 0 THEN 1 ELSE Pow10(n.d)
         IN (IF n.m < 0 THEN <<"-">> ELSE <<>>)
            \o (IF n.d < 0
                THEN NatToDigits(a) \o [i \in 1..(0 - n.d) |-> "0"]
                ELSE NatToDigits(a \div p)
                     \o (IF n.d = 0 THEN <<>>
                         ELSE <<".">> \o NatToFixedDigits(a % p, n.d)))

\* String(x)
String(x) ==
  CASE x.t = "undefined" -> <<"u","n","d","e","f","i","n","e","d">>
    [] x.t = "null"      -> <<"n","u","l","l">>
    [] x.t = "string"    -> x.v
    [] x.t = "boolean"   -> IF x.v THEN <<"t","r","u","e">> ELSE <<"f","a","l","s","e">>
    [] x.t = "number"    -> NumberToString(x.v)

\* sanitizeString
sanitizeString(value) ==
  IF typeof(value) # "string"
  THEN String(IF Truthy(value) THEN value ELSE Str(<<>>))
  ELSE sanitizeText(value.v)

(***************************************************************************)
(* sanitizeNumber.                                                         *)
(***************************************************************************)
\* the digits kept by toFixed(10)
FixedDigits == 10

\* a decimal without trailing zeros in its fraction
RECURSIVE Normalize(_, _)
Normalize(m, d) == IF d > 0 /\ m % 10 = 0 THEN Normalize(m \div 10, d - 1) ELSE Dec(m, d)

\* Number(value.toFixed(10)): rounded to 10 decimals, halves away from zero
toFixed10(n) ==
  IF n.d <= FixedDigits
  THEN Normalize(n.m, n.d)
  ELSE LET p == Pow10(n.d - FixedDigits)
           a == IF n.m < 0 THEN 0 - n.m ELSE n.m
           q == (2 * a + p) \div (2 * p)
       IN Normalize(IF n.m < 0 THEN 0 - q ELSE q, FixedDigits)

IsDigit(c) == c \in Range(Digits)

DigitValue(c) == (CHOOSE i \in 1..10 : Digits[i] = c) - 1

\* the number written by a sequence of digits
RECURSIVE DigitsToNat(_)
DigitsToNat(ds) ==
  IF ds = <<>> THEN 0 ELSE 10 * DigitsToNat(SubSeq(ds, 1, Len(ds) - 1)) + DigitValue(ds[Len(ds)])

\* first position from k on whose character is not a digit
DigitRunEnd(s, k) == Min({j \in k..(Len(s) + 1) : j = Len(s) + 1 \/ ~IsDigit(s[j])})

\* value.replace(/[^\d.-]/g, '')
IsNumberChar(c) == IsDigit(c) \/ c \in {".", "-"}
keepNumberChars(s) == SelectSeq(s, IsNumberChar)

\* the digits before the decimal point of the largest finite number
\* (Number.MAX_VALUE is below 1.8e308)
MaxIntegerDigits == 309

\* the digits without their leading zeros
Significant(ds) ==
  SubSeq(ds, Min({j \in 1..(Len(ds) + 1) : j = Len(ds) + 1 \/ ds[j] # "0"}), Len(ds))

\* parseFloat on a text of digits, dots and minus signs: the longest prefix
\* of the form -?digits(.digits)? holding a digit, NaN when there is none,
\* an infinity when the integer part has more digits than a finite number
parseFloat(s) ==
  LET neg == Len(s) >= 1 /\ s[1] = "-"
      a   == IF neg THEN 2 ELSE 1
      b   == DigitRunEnd(s, a)
      dot == b <= Len(s) /\ s[b] = "."
      c   == IF dot THEN DigitRunEnd(s, b + 1) ELSE b
      ip  == SubSeq(s, a, b - 1)
      fp  == IF dot THEN SubSeq(s, b + 1, c - 1) ELSE <<>>
      m   == DigitsToNat(Significant(ip \o fp))
  IN IF ip = <<>> /\ fp = <<>>
     THEN NaN
     ELSE IF Len(Significant(ip)) > MaxIntegerDigits
          THEN IF neg THEN MinusInfinity ELSE Infinity
          ELSE Normalize(IF neg THEN 0 - m ELSE m, Len(fp))

\* mutant: what parseFloat returns is not tested with isFinite
sanitizeNumber_unchecked(value) ==
  IF typeof(value) = "number" /\ isFinite(value)
  THEN toFixed10(value.v)
  ELSE IF typeof(value) = "string"
       THEN parseFloat(keepNumberChars(value.v))
       ELSE Num(0)

\* sanitizeNumber
sanitizeNumber(value) ==
  IF typeof(value) = "number" /\ isFinite(value)
  THEN toFixed10(value.v)
  ELSE IF typeof(value) = "string"
       THEN LET parsed == parseFloat(keepNumberChars(value.v))
            IN IF isFinite(parsed) THEN toFixed10(parsed.v) ELSE Num(0)
       ELSE Num(0)

\* a text that ends at position k onward with an optional exponent part
ExponentEnd(s, k) ==
  IF k <= Len(s) /\ s[k] \in {"e", "E"}
  THEN LET q == IF k + 1 <= Len(s) /\ s[k + 1] \in {"+", "-"} THEN k + 2 ELSE k + 1
           r == IF q <= Len(s) THEN DigitRunEnd(s, q) ELSE q
       IN IF r > q THEN r ELSE 0
  ELSE k

\* s from position k on is an unsigned decimal literal
IsDecimalLiteralFrom(s, k) ==
  LET a   == DigitRunEnd(s, k)
      dot == a <= Len(s) /\ s[a] = "."
      b   == IF dot THEN DigitRunEnd(s, a + 1) ELSE a
      has == (a > k) \/ (dot /\ b > a + 1)
  IN has /\ ExponentEnd(s, b) = Len(s) + 1

IsHexDigit(c) == IsDigit(c) \/ LowerChar(c) \in {"a","b","c","d","e","f"}

\* s is 0x, 0o or 0b followed by digits of that base
IsRadixLiteral(s) ==
  /\ Len(s) >= 3
  /\ s[1] = "0"
  /\ \/ LowerChar(s[2]) = "x" /\ \A i \in 3..Len(s) : IsHexDigit(s[i])
     \/ LowerChar(s[2]) = "o" /\ \A i \in 3..Len(s) : s[i] \in {"0","1","2","3","4","5","6","7"}
     \/ LowerChar(s[2]) = "b" /\ \A i \in 3..Len(s) : s[i] \in {"0","1"}

\* !isNaN(Number(s)) for a trimmed text s (StringToNumber)
IsNumericText(s) ==
  LET k == IF Len(s) >= 1 /\ s[1] \in {"+", "-"} THEN 2 ELSE 1
  IN \/ s = <<>>
     \/ SubSeq(s, k, Len(s)) = <<"I","n","f","i","n","i","t","y">>
     \/ IsDecimalLiteralFrom(s, k)
     \/ IsRadixLiteral(s)

(***************************************************************************)
(* new URL(text): the part of the URL parser that validateUrl reads, the   *)
(* protocol and the hostname of an http or https URL.  Percent-encoded,    *)
(* numeric (IPv4) and bracketed (IPv6) hosts are outside the alphabet of   *)
(* the generated texts.                                                    *)
(***************************************************************************)
IsAlpha(c) == c \in Range(UpperCase) \cup Range(LowerCase)

IsSchemeChar(c) == IsAlpha(c) \/ IsDigit(c) \/ c \in {"+", "-", "."}

\* the forbidden host code points
IsForbiddenHostChar(c) ==
  c \in {" ", "\t", "\n", "#", "/", ":", "<", ">", "?", "@", "[", "\\", "]", "^", "|", "%"}

\* the positions of s that hold one of the characters cs
PositionsOf(s, cs) == {i \in 1..Len(s) : s[i] \in cs}

UrlFailure == [failure |-> TRUE, protocol |-> <<>>, hostname |-> <<>>]

\* host and port of an authority without credentials
ParseHostPort(protocol, hp) ==
  LET colons == PositionsOf(hp, {":"})
      host   == IF colons = {} THEN hp ELSE SubSeq(hp, 1, Min(colons) - 1)
      port   == IF colons = {} THEN <<>> ELSE SubSeq(hp, Min(colons) + 1, Len(hp))
  IN IF \/ host = <<>>
        \/ \E i \in 1..Len(host) : IsForbiddenHostChar(host[i])
        \/ \E i \in 1..Len(port) : ~IsDigit(port[i])
        \/ Len(port) > 5
        \/ (port # <<>> /\ DigitsToNat(port) > 65535)
     THEN UrlFailure
     ELSE [failure |-> FALSE, protocol |-> protocol, hostname |-> toLowerCase(host)]

\* what follows "http:" or "https:": any number of slashes, the authority up
\* to the first '/', '?' or '#', the credentials up to its last '@'
ParseSpecialRest(protocol, rest) ==
  LET nonSlash == {i \in 1..Len(rest) : rest[i] \notin {"/", "\\"}}
      from     == IF nonSlash = {} THEN Len(rest) + 1 ELSE Min(nonSlash)
      ends     == {i \in from..Len(rest) : rest[i] \in {"/", "\\", "?", "#"}}
      to       == IF ends = {} THEN Len(rest) ELSE Min(ends) - 1
      auth     == SubSeq(rest, from, to)
      ats      == PositionsOf(auth, {"@"})
      hp       == IF ats = {} THEN auth ELSE SubSeq(auth, Max(ats) + 1, Len(auth))
  IN ParseHostPort(protocol, hp)

\* new URL(text) without a base: a failure is the TypeError it throws.  For
\* a scheme other than http and https only the protocol is modelled.
ParseUrl(text) ==
  LET s      == trim(text)
      colons == PositionsOf(s, {":"})
      c      == IF colons = {} THEN 0 ELSE Min(colons)
      scheme == toLowerCase(SubSeq(s, 1, c - 1))
  IN IF \/ c <= 1
        \/ ~IsAlpha(s[1])
        \/ \E i \in 1..(c - 1) : ~IsSchemeChar(s[i])
     THEN UrlFailure
     ELSE IF scheme \in {<<"h","t","t","p">>, <<"h","t","t","p","s">>}
          THEN ParseSpecialRest(scheme \o <<":">>, SubSeq(s, c + 1, Len(s)))
          ELSE [failure |-> FALSE, protocol |-> scheme \o <<":">>, hostname |-> <<>>]

allowedProtocols == {<<"h","t","t","p",":">>, <<"h","t","t","p","s",":">>}

trustedDomains ==
  {<<"y","o","u","t","u","b","e",".","c","o","m">>,
   <<"y","o","u","t","u",".","b","e">>,
   <<"w","w","w",".","y","o","u","t","u","b","e",".","c","o","m">>}

\* mutant: the suffix test without the separating dot
HostMatches_noDot(hostname, domain) ==
  hostname = domain \/ endsWith(hostname, domain)

\* hostname === domain || hostname.endsWith('.' + domain)
HostMatches(hostname, domain) ==
  hostname = domain \/ endsWith(hostname, <<".">> \o domain)

\* mutant: the text given is returned instead of the cleaned one
validateUrl_returnsInput(url) ==
  IF url = <<>>
  THEN <<>>
  ELSE LET cleaned == sanitizeString(Str(url))
           urlObj  == ParseUrl(cleaned)
       IN IF urlObj.failure
          THEN <<>>
          ELSE IF urlObj.protocol \notin allowedProtocols
               THEN <<>>
               ELSE IF ~\E domain \in trustedDomains :
                          HostMatches(toLowerCase(urlObj.hostname), domain)
                    THEN <<>>
                    ELSE url

\* validateUrl, on the text of a cell
validateUrl(url) ==
  IF url = <<>>
  THEN <<>>
  ELSE LET cleaned == sanitizeString(Str(url))
           urlObj  == ParseUrl(cleaned)
       IN IF urlObj.failure
          THEN <<>>
          ELSE IF urlObj.protocol \notin allowedProtocols
               THEN <<>>
               ELSE IF ~\E domain \in trustedDomains :
                          HostMatches(toLowerCase(urlObj.hostname), domain)
                    THEN <<>>
                    ELSE cleaned

(***************************************************************************)
(* Objects: the keys in insertion order and the value of each key.         *)
(***************************************************************************)
EmptyObject == [keys |-> <<>>, val |-> <<>>]

\* Object.keys(o)
ObjectKeys(o) == o.keys

\* key in o
HasKey(o, key) == key \in Range(o.keys)

\* o[key]
Get(o, key) == IF HasKey(o, key) THEN o.val[key] ELSE Undefined

\* o[key] = value
Put(o, key, value) ==
  [keys |-> IF HasKey(o, key) THEN o.keys ELSE Append(o.keys, key),
   val  |-> [x \in Range(o.keys) \cup {key} |-> IF x = key THEN value ELSE o.val[x]]]

\* row[colIndex] for the 1-based index i: undefined past the end of the row
Cell(row, i) == IF i >= 1 /\ i <= Len(row) THEN row[i] ELSE Undefined

(***************************************************************************)
(* validateAndSanitizeRow.                                                 *)
(***************************************************************************)
KEY_Brand         == <<"B","r","a","n","d">>
KEY_Filament_type == <<"F","i","l","a","m","e","n","t"," ","t","y","p","e">>
KEY_Material      == <<"M","a","t","e","r","i","a","l">>
KEY_Type          == <<"T","y","p","e">>

STR_undefined == <<"u","n","d","e","f","i","n","e","d">>
STR_link      == <<"l","i","n","k">>
STR_url       == <<"u","r","l">>

\* the number of keys above which a record needs no identifying column
MinFields == 5

\* the longest text that sets hasValidData
MaxStringLength == 1000

\* value === undefined || value === null || value === '' || value === 'undefined'
IsEmptyValue(value) ==
  \/ typeof(value) \in {"undefined", "null"}
  \/ (typeof(value) = "string" /\ value.v \in {<<>>, STR_undefined})

\* typeof value === 'number' ||
\*   (!isNaN(Number(String(value).trim())) && String(value).trim() !== '')
IsNumericValue(value) ==
  \/ typeof(value) = "number"
  \/ (IsNumericText(trim(String(value))) /\ trim(String(value)) # <<>>)

\* sanitizedUrl || null, sanitizedString || null
OrNull(text) == IF text = <<>> THEN Null ELSE Str(text)

\* the value stored for one non-empty cell under the header cleanHeader
MapValue(cleanHeader, value) ==
  IF includes(toLowerCase(cleanHeader), STR_link) \/ includes(toLowerCase(cleanHeader), STR_url)
  THEN OrNull(validateUrl(String(value)))
  ELSE IF IsNumericValue(value)
       THEN sanitizeNumber(value)
       ELSE OrNull(sanitizeString(value))

\* mutant: an empty cell leaves the key out of the record
Store_omitEmpty(acc, cleanHeader, value) ==
  IF IsEmptyValue(value)
  THEN acc
  ELSE [obj |-> Put(acc.obj, cleanHeader, MapValue(cleanHeader, value)),
        hasValidData |-> TRUE]

\* what one pass of headerRow.forEach does to the row under construction
\* and to the local hasValidData
Store(acc, cleanHeader, value) ==
  IF IsEmptyValue(value)
  THEN [obj |-> Put(acc.obj, cleanHeader, Null), hasValidData |-> acc.hasValidData]
  ELSE LET stored == MapValue(cleanHeader, value)
           isText == ~(includes(toLowerCase(cleanHeader), STR_link)
                       \/ includes(toLowerCase(cleanHeader), STR_url))
                     /\ ~IsNumericValue(value)
       IN [obj |-> Put(acc.obj, cleanHeader, stored),
           hasValidData |->
             IF isText
             THEN acc.hasValidData
                  \/ (stored # Null /\ Len(stored.v) <= MaxStringLength)
             ELSE TRUE]

\* headerRow.forEach from the column colIndex on; header.trim() throws a
\* TypeError on a header cell that is truthy and not a string
RECURSIVE MapColumns(_, _, _, _)
MapColumns(row, headerRow, colIndex, acc) ==
  IF colIndex > Len(headerRow)
  THEN [thrown |-> FALSE, obj |-> acc.obj, hasValidData |-> acc.hasValidData]
  ELSE LET header      == headerRow[colIndex]
           value       == Cell(row, colIndex)
           cleanHeader == sanitizeString(header)
       IN IF ~Truthy(header)
          THEN MapColumns(row, headerRow, colIndex + 1, acc)
          ELSE IF typeof(header) # "string"
               THEN [thrown |-> TRUE, obj |-> EmptyObject, hasValidData |-> FALSE]
               ELSE IF trim(header.v) = <<>> \/ cleanHeader = <<>>
                    THEN MapColumns(row, headerRow, colIndex + 1, acc)
                    ELSE MapColumns(row, headerRow, colIndex + 1,
                                    Store(acc, cleanHeader, value))

\* sanitizedRow.Brand || sanitizedRow['Filament type'] || sanitizedRow.Material
\*   || sanitizedRow.Type || Object.keys(sanitizedRow).length > 5
hasIdentification(sanitizedRow) ==
  \/ Truthy(Get(sanitizedRow, KEY_Brand))
  \/ Truthy(Get(sanitizedRow, KEY_Filament_type))
  \/ Truthy(Get(sanitizedRow, KEY_Material))
  \/ Truthy(Get(sanitizedRow, KEY_Type))
  \/ Len(ObjectKeys(sanitizedRow)) > MinFields

\* validateAndSanitizeRow: a record, null (the row is dropped) or a throw
validateAndSanitizeRow(row, headerRow) ==
  LET mapped == MapColumns(row, headerRow, 1, [obj |-> EmptyObject, hasValidData |-> FALSE])
  IN IF mapped.thrown
     THEN [kind |-> "throw", obj |-> EmptyObject]
     ELSE IF ~hasIdentification(mapped.obj)
          THEN [kind |-> "null", obj |-> EmptyObject]
          ELSE [kind |-> "record", obj |-> mapped.obj]

(***************************************************************************)
(* parseExcelFile: the checks of the file, the row filter and the onload   *)
(* handler of the FileReader.                                              *)
(***************************************************************************)
MAX_FILE_SIZE == 50 * 1024 * 1024

allowedTypes ==
  {"application/vnd.openxmlformats-officedocument.spreadsheetml.sheet",
   "application/vnd.ms-excel"}

\* mutant: the type of the file is not checked
FileCheck_sizeOnly(file) ==
  IF file.size > MAX_FILE_SIZE THEN "File size exceeds 50MB limit" ELSE ""

\* the two checks made before the Promise is created: the message of the
\* error thrown, "" when the file passes
FileCheck(file) ==
  IF file.size > MAX_FILE_SIZE
  THEN "File size exceeds 50MB limit"
  ELSE IF file.type \notin allowedTypes
       THEN "Invalid file type. Please upload an Excel file (.xlsx or .xls)"
       ELSE ""

\* Array.prototype.join(' '): undefined and null cells give the empty text
RECURSIVE join(_)
join(row) ==
  IF row = <<>>
  THEN <<>>
  ELSE LET text(c) == IF typeof(c) \in {"undefined", "null"} THEN <<>> ELSE String(c)
       IN IF Len(row) = 1
          THEN text(row[1])
          ELSE text(row[1]) \o <<" ">> \o join(Tail(row))

\* the texts that mark a row as an annotation
rowMarkers ==
  {<<"n","e","w"," ","r","o","w","s">>, <<"o","r","a","n","g","e"," ","b","g">>, <<"m","e","t","a","d","a","t","a">>, <<"h","e","a","d","e","r">>, <<"n","o","t","e",":">>, <<"c","o","m","m","e","n","t">>}

\* cell !== undefined && cell !== null && cell !== ''
IsDefinedCell(cell) ==
  ~(typeof(cell) \in {"undefined", "null"} \/ (typeof(cell) = "string" /\ cell.v = <<>>))

\* mutant: the text at index 1 is compared with 'undefined' as written
rowFilter_caseSensitive(row) ==
  IF Len(row) = 0
  THEN FALSE
  ELSE IF \E marker \in rowMarkers : includes(toLowerCase(join(row)), marker)
       THEN FALSE
       ELSE IF Cardinality({i \in 1..Len(row) : IsDefinedCell(row[i])}) < 2
            THEN FALSE
            ELSE /\ Truthy(Cell(row, 2))
                 /\ trim(String(Cell(row, 2))) # <<>>
                 /\ String(Cell(row, 2)) # STR_undefined

\* the callback of dataRows.filter
rowFilter(row) ==
  IF Len(row) = 0
  THEN FALSE
  ELSE IF \E marker \in rowMarkers : includes(toLowerCase(join(row)), marker)
       THEN FALSE
       ELSE IF Cardinality({i \in 1..Len(row) : IsDefinedCell(row[i])}) < 2
            THEN FALSE
            ELSE /\ Truthy(Cell(row, 2))
                 /\ trim(String(Cell(row, 2))) # <<>>
                 /\ toLowerCase(String(Cell(row, 2))) # STR_undefined

STR_filament == <<"f","i","l","a","m","e","n","t">>
STR_flexible == <<"f","l","e","x","i","b","l","e">>

\* mutant: the first sheet of the workbook whatever the names
selectSheetName_first(workbook) == workbook.SheetNames[1]
\* workbook.SheetNames.find(...) || workbook.SheetNames[0]
selectSheetName(workbook) ==
  LET names == workbook.SheetNames
      found == {i \in 1..Len(names) :
                  /\ includes(toLowerCase(names[i]), STR_filament)
                  /\ ~includes(toLowerCase(names[i]), STR_flexible)}
  IN IF found # {} THEN names[Min(found)] ELSE names[1]

\* the rows of index 2 onward that pass the filter, by their position in rawData
keptRows(rawData) ==
  LET passes(i) == rowFilter(rawData[i])
  IN SelectSeq([k \in 1..(Len(rawData) - 2) |-> k + 2], passes)

\* mutant: two rows are enough
sheetCheck_twoRows(rawData) ==
  IF Len(rawData) < 2
  THEN "Not enough data rows in Excel file"
  ELSE IF Len(rawData[2]) = 0
       THEN "No header row found"
       ELSE ""

\* the two checks of the decoded sheet: the message of the error thrown, ""
\* when the sheet passes
sheetCheck(rawData) ==
  IF Len(rawData) < 3
  THEN "Not enough data rows in Excel file"
  ELSE IF Len(rawData[2]) = 0
       THEN "No header row found"
       ELSE ""


\* .map(row => validateAndSanitizeRow(row, headerRow)) on the rows kept,
\* given by their positions in rawData
mapRows(rawData, kept) ==
  [k \in 1..Len(kept) |-> validateAndSanitizeRow(rawData[kept[k]], rawData[2])]

\* mutant: a throw of validateAndSanitizeRow delivers the records mapped
\* before it
collectRows_partial(kept, results) ==
  LET thrown == {k \in 1..Len(kept) : results[k].kind = "throw"}
      last == IF thrown # {} THEN Min(thrown) - 1 ELSE Len(kept)
      isRecord(k) == results[k].kind = "record"
      records == SelectSeq([k \in 1..last |-> k], isRecord)
  IN [error |-> "", mapped |-> SubSeq(kept, 1, last),
      data |-> [k \in 1..Len(records) |-> results[records[k]].obj],
      source |-> [k \in 1..Len(records) |-> kept[records[k]]]]
\* .filter(row => row !== null) and the outcome of the try block: a throw
\* of validateAndSanitizeRow ends it at the row that throws
collectRows(kept, results) ==
  LET thrown == {k \in 1..Len(kept) : results[k].kind = "throw"}
      isRecord(k) == results[k].kind = "record"
      records == SelectSeq([k \in 1..Len(kept) |-> k], isRecord)
  IN IF thrown # {}
     THEN [error |-> "TypeError", mapped |-> SubSeq(kept, 1, Min(thrown)),
           data |-> <<>>, source |-> <<>>]
     ELSE [error |-> "", mapped |-> kept,
           data |-> [k \in 1..Len(records) |-> results[records[k]].obj],
           source |-> [k \in 1..Len(records) |-> kept[records[k]]]]

\* the body of the try block of reader.onload after XLSX.read: the error
\* thrown ("" when none), the rows given to validateAndSanitizeRow, the
\* records kept and the row each of them comes from
processSheet(rawData) ==
  IF sheetCheck(rawData) # ""
  THEN [error |-> sheetCheck(rawData), mapped |-> <<>>, data |-> <<>>, source |-> <<>>]
  ELSE collectRows(keptRows(rawData), mapRows(rawData, keptRows(rawData)))

(***************************************************************************)
(* validateExcelData: the diagnostics of a dataset.                        *)
(***************************************************************************)
MAX_ROWS == 10000

\* the rows sampled, the issues listed one by one, the longest string and
\* column name, and the exponent of the largest magnitude (1e10)
SampleRows        == 100
MaxIssuesListed   == 5
MaxValueLength    == 500
MaxColumnLength   == 100
MagnitudeExponent == 10

KEY_Name    == <<"N","a","m","e">>
STR_script  == <<"s","c","r","i","p","t">>
STR_Tensile == <<"T","e","n","s","i","l","e">>
STR_Layer   == <<"L","a","y","e","r">>
STR_IZOD    == <<"I","Z","O","D">>

\* one entry of errors: the fixed text of the message and what it interpolates
Diagnostic(message, args) == [message |-> message, args |-> args]

\* Math.abs(value) > 1e10 for the finite number m / 10^d
MagnitudeAbove(n) ==
  LET a == IF n.m < 0 THEN 0 - n.m ELSE n.m
      k == 0 - n.d
  IN IF k <= 0
     THEN FALSE
     ELSE IF k >= MagnitudeExponent
          THEN a >= 2 \/ (a >= 1 /\ k > MagnitudeExponent)
          ELSE a > Pow10(MagnitudeExponent - k)

\* col.includes('<') || col.includes('>') || col.includes('script') || col.length > 100
IsSuspiciousColumn(col) ==
  \/ includes(col, <<"<">>)
  \/ includes(col, <<">">>)
  \/ includes(col, STR_script)
  \/ Len(col) > MaxColumnLength

\* typeof firstRow[col] === 'number' &&
\*   (col.includes('Tensile') || col.includes('Layer') || col.includes('IZOD'))
IsMeasurementColumn(firstRow, col) ==
  /\ typeof(Get(firstRow, col)) = "number"
  /\ (includes(col, STR_Tensile) \/ includes(col, STR_Layer) \/ includes(col, STR_IZOD))

\* the diagnostics drawn from the first record: column names, identifying
\* columns, measurement columns
columnDiagnostics(firstRow) ==
  (IF SelectSeq(ObjectKeys(firstRow), IsSuspiciousColumn) # <<>>
   THEN <<Diagnostic("Suspicious column names detected",
                     SelectSeq(ObjectKeys(firstRow), IsSuspiciousColumn))>>
   ELSE <<>>)
  \o (IF \E column \in {KEY_Brand, KEY_Filament_type, KEY_Material, KEY_Type, KEY_Name} :
            HasKey(firstRow, column)
      THEN <<>>
      ELSE <<Diagnostic("Missing identifying columns", <<>>)>>)
  \o (IF \E col \in Range(ObjectKeys(firstRow)) : IsMeasurementColumn(firstRow, col)
      THEN <<>>
      ELSE <<Diagnostic("No numeric measurement columns found", <<>>)>>)

\* the issue of one value, "" when it has none
valueIssue(v) ==
  IF typeof(v) = "number"
  THEN IF ~isFinite(v) \/ MagnitudeAbove(v.v) THEN "unreasonable value" ELSE ""
  ELSE IF typeof(v) = "string" /\ Len(v.v) > MaxValueLength
       THEN "string too long"
       ELSE ""

\* the issues of the record of 0-based position index, in the order of its keys
rowIssues(record, index) ==
  LET hasIssue(key) == valueIssue(Get(record, key)) # ""
      keys == SelectSeq(ObjectKeys(record), hasIssue)
  IN [k \in 1..Len(keys) |->
        [row |-> index + 1, key |-> keys[k], issue |-> valueIssue(Get(record, keys[k]))]]

\* mutant: the issues of every record, not of the first 100 only
dataIssues_allRows(data) ==
  Concat([i \in 1..Len(data) |-> rowIssues(data[i], i - 1)])
\* dataIssues: the issues of data.slice(0, 100)
dataIssues(data) ==
  Concat([i \in 1..Min({Len(data), SampleRows}) |-> rowIssues(data[i], i - 1)])

\* the diagnostic that the issues give, if any
qualityDiagnostics(issues) ==
  IF Len(issues) > 0 /\ Len(issues) <= MaxIssuesListed
  THEN <<Diagnostic("Data quality issues", SubSeq(issues, 1, Min({Len(issues), MaxIssuesListed})))>>
  ELSE IF Len(issues) > MaxIssuesListed
       THEN <<Diagnostic("Multiple data quality issues detected", <<Len(issues)>>)>>
       ELSE <<>>

\* mutant: the other checks go on after the row count has been exceeded
validateExcelData_noReturn(data) ==
  IF Len(data) = 0
  THEN <<Diagnostic("No data found in the Excel file", <<>>)>>
  ELSE (IF Len(data) > MAX_ROWS
        THEN <<Diagnostic("Too many rows", <<Len(data), MAX_ROWS>>)>>
        ELSE <<>>)
       \o columnDiagnostics(data[1]) \o qualityDiagnostics(dataIssues(data))

\* validateExcelData
validateExcelData(data) ==
  IF Len(data) = 0
  THEN <<Diagnostic("No data found in the Excel file", <<>>)>>
  ELSE IF Len(data) > MAX_ROWS
       THEN <<Diagnostic("Too many rows", <<Len(data), MAX_ROWS>>)>>
       ELSE columnDiagnostics(data[1]) \o qualityDiagnostics(dataIssues(data))
(***************************************************************************)
(* App: the state of the component, the persisted copy of the dataset and  *)
(* what the handlers of App and FilterPanel compute.                       *)
(***************************************************************************)
DefaultFilters ==
  [brands |-> <<>>, filamentTypes |-> <<>>, baseMaterials |-> <<>>, fiberBlends |-> <<>>,
   searchText |-> <<>>, numericFilters |-> EmptyObject]

DefaultChartConfig == [xAxis |-> <<>>, yAxis |-> <<>>, type |-> "scatter"]

\* error: null, or a message
NoError          == [set |-> FALSE, message |-> ""]
ErrorOf(message) == [set |-> TRUE, message |-> message]

\* localStorage.getItem('mytechfun-filament-data'): no item, an item written
\* by JSON.stringify, or a text that is not JSON
NoItem       == [kind |-> "none", value |-> <<>>]
CorruptItem  == [kind |-> "text", value |-> <<>>]

\* what JSON keeps of a record: a number that is not finite becomes null and
\* a key whose value is undefined is left out
jsonRecord(o) ==
  LET isDefined(key) == typeof(o.val[key]) # "undefined"
      keys == SelectSeq(o.keys, isDefined)
  IN [keys |-> keys,
      val  |-> [key \in Range(keys) |->
                  IF typeof(o.val[key]) = "number" /\ ~isFinite(o.val[key])
                  THEN Null
                  ELSE o.val[key]]]

\* JSON.stringify(data), held as the array that JSON.parse gives back
JSONstringify(d) == [kind |-> "json", value |-> [i \in 1..Len(d) |-> jsonRecord(d[i])]]

\* the data after the effect that loads the persisted data: JSON.parse
\* throws on a text that is not JSON and the data stays as it is
loadSaved(item, current) == IF item.kind = "json" THEN item.value ELSE current

\* Object.keys(data[0]).filter(key => typeof data[0][key] === 'number')
numericColumns(d) ==
  LET isNumber(key) == typeof(Get(d[1], key)) = "number"
  IN IF Len(d) = 0 THEN <<>> ELSE SelectSeq(ObjectKeys(d[1]), isNumber)

\* the chart configuration after the effect that sets the default axes
defaultAxes(d, config) ==
  IF Len(numericColumns(d)) >= 2 /\ (config.xAxis = <<>> \/ config.yAxis = <<>>)
  THEN [config EXCEPT
          !.xAxis = IF config.xAxis # <<>> THEN config.xAxis ELSE numericColumns(d)[1],
          !.yAxis = IF config.yAxis # <<>> THEN config.yAxis ELSE numericColumns(d)[2]]
  ELSE config

\* uniqueValues: the values of a column that are truthy
uniqueValues(d, key) == {Get(d[i], key) : i \in {j \in 1..Len(d) : Truthy(Get(d[j], key))}}

\* handleMultiSelectChange: the selection with the value taken out, or added
\* at the end
toggle(currentValues, v) ==
  LET isOther(x) == x # v
  IN IF v \in Range(currentValues)
     THEN SelectSeq(currentValues, isOther)
     ELSE Append(currentValues, v)

\* a sequence without its element of position i
RemoveAt(s, i) == SubSeq(s, 1, i - 1) \o SubSeq(s, i + 1, Len(s))

(***************************************************************************)
(* filteredData of App.  Comparisons of numbers: a number is m / 10^d.     *)
(***************************************************************************)
KEY_Base   == <<"B","a","s","e">>
KEY_Fibers == <<"F","i","b","e","r","s">>

\* the absolute value and the sign of a whole number
Abs(n)  == IF n < 0 THEN 0 - n ELSE n
Sign(n) == IF n < 0 THEN 0 - 1 ELSE IF n > 0 THEN 1 ELSE 0

\* the decimal magnitude of a finite number other than 0: the e with
\* 10^(e-1) <= |m / 10^d| < 10^e
Magnitude(n) == Len(NatToDigits(Abs(n.m))) - n.d

\* a < b on numbers; false when one of them is NaN.  Finite numbers are
\* compared by sign, then by magnitude, then digit for digit
numLess(a, b) ==
  CASE a.k = "nan" \/ b.k = "nan" -> FALSE
    [] a.k = "inf" /\ b.k = "inf" -> a.m < b.m
    [] a.k = "inf"                -> a.m < 0
    [] b.k = "inf"                -> b.m > 0
    [] OTHER ->
         IF Sign(a.m) # Sign(b.m)
         THEN Sign(a.m) < Sign(b.m)
         ELSE IF a.m = 0
              THEN FALSE
              ELSE IF Magnitude(a) # Magnitude(b)
                   THEN (Magnitude(a) < Magnitude(b)) = (a.m > 0)
                   ELSE LET D == Max({a.d, b.d})
                        IN a.m * Pow10(D - a.d) < b.m * Pow10(D - b.d)

\* x < y as JavaScript compares a number with a bound that is a number or
\* undefined (undefined converts to NaN)
Below(x, y) == typeof(y) = "number" /\ numLess(x.v, y.v)
Above(x, y) == typeof(y) = "number" /\ numLess(y.v, x.v)

\* item.Base || ''
OrEmpty(x) == IF Truthy(x) THEN x ELSE Str(<<>>)

\* searchableFields.some(field => field && field.toLowerCase().includes(searchLower)):
\* "match", "none", or "throw" when a truthy field that is not a string comes
\* before any match
RECURSIVE someField(_, _, _)
someField(fields, k, searchLower) ==
  IF k > Len(fields)
  THEN "none"
  ELSE IF ~Truthy(fields[k])
       THEN someField(fields, k + 1, searchLower)
       ELSE IF typeof(fields[k]) # "string"
            THEN "throw"
            ELSE IF includes(toLowerCase(fields[k].v), searchLower)
                 THEN "match"
                 ELSE someField(fields, k + 1, searchLower)

\* mutant: a range excludes the items without a number in its column too
outOfRange_missingExcluded(item, numericFilters) ==
  \E column \in Range(ObjectKeys(numericFilters)) :
     \/ typeof(Get(item, column)) # "number"
     \/ Below(Get(item, column), numericFilters.val[column].min)
     \/ Above(Get(item, column), numericFilters.val[column].max)

\* the numeric range filters: some range excludes the item
outOfRange(item, numericFilters) ==
  \E column \in Range(ObjectKeys(numericFilters)) :
     /\ typeof(Get(item, column)) = "number"
     /\ Get(item, column).v.k # "nan"
     /\ \/ Below(Get(item, column), numericFilters.val[column].min)
        \/ Above(Get(item, column), numericFilters.val[column].max)

\* the callback of data.filter: "keep", "drop" or "throw"
keepItem(item, f) ==
  IF Len(f.brands) > 0 /\ Get(item, KEY_Brand) \notin Range(f.brands)
  THEN "drop"
  ELSE IF Len(f.filamentTypes) > 0 /\ Get(item, KEY_Filament_type) \notin Range(f.filamentTypes)
  THEN "drop"
  ELSE IF Len(f.baseMaterials) > 0 /\ OrEmpty(Get(item, KEY_Base)) \notin Range(f.baseMaterials)
  THEN "drop"
  ELSE IF Len(f.fiberBlends) > 0 /\ OrEmpty(Get(item, KEY_Fibers)) \notin Range(f.fiberBlends)
  THEN "drop"
  ELSE LET found == IF f.searchText = <<>>
                    THEN "match"
                    ELSE someField(<<Get(item, KEY_Brand), Get(item, KEY_Filament_type),
                                     Get(item, KEY_Base), Get(item, KEY_Fibers)>>,
                                   1, toLowerCase(f.searchText))
       IN IF found = "throw"
          THEN "throw"
          ELSE IF found = "none"
               THEN "drop"
               ELSE IF outOfRange(item, f.numericFilters) THEN "drop" ELSE "keep"

\* filteredData: the items kept, or the TypeError of the callback
filteredData(d, f) ==
  IF \E i \in 1..Len(d) : keepItem(d[i], f) = "throw"
  THEN [threw |-> TRUE, rows |-> <<>>]
  ELSE [threw |-> FALSE, rows |-> SelectSeq(d, LAMBDA item : keepItem(item, f) = "keep")]

(***************************************************************************)
(* Charts: barData, radarData and normalizeMinMax.  The values of the      *)
(* chart columns are numbers, null, undefined or texts that Number() does  *)
(* not read as a number; the arithmetic is exact, on m / 10^d, and         *)
(* toFixed rounds halves away from zero.                                   *)
(***************************************************************************)
KEY_Base_Material  == <<"B","a","s","e"," ","M","a","t","e","r","i","a","l">>
KEY_Tensile_kg     == <<"T","e","n","s","i","l","e"," ","(","k","g",")">>
KEY_Layer_adhesion == <<"L","a","y","e","r"," ","a","d","h","e","s","i","o","n"," ","(","k","g",")">>

\* the columns averaged by barData, those of radarData, its filaments, and
\* the columns it needs
BarColumns   == 5
RadarColumns == 6
TopFilaments == 3
MinRadarColumns == 3

\* ToNumber of a value that arithmetic reads as a number: null is 0
ToNumber(x) == IF typeof(x) = "number" THEN x.v ELSE [k |-> "fin", m |-> 0, d |-> 0]

\* !isNaN(val): numbers other than NaN, and null, which converts to 0
notNaN(x) ==
  \/ typeof(x) = "number" /\ x.v.k # "nan"
  \/ typeof(x) = "null"
  \/ typeof(x) = "boolean"
  \/ typeof(x) = "string" /\ IsNumericText(x.v)

\* the decimal digits that a double holds: a term smaller than the other by
\* more of them is lost in a sum
SignificantDigits == 17

\* a + b and a - b on finite numbers
numAdd(a, b) ==
  IF a.m = 0
  THEN Normalize(b.m, b.d).v
  ELSE IF b.m = 0
       THEN Normalize(a.m, a.d).v
       ELSE IF Magnitude(a) - Magnitude(b) > SignificantDigits
            THEN a
            ELSE IF Magnitude(b) - Magnitude(a) > SignificantDigits
                 THEN b
                 ELSE LET D == Max({a.d, b.d})
                      IN Normalize(a.m * Pow10(D - a.d) + b.m * Pow10(D - b.d), D).v

numSub(a, b) == numAdd(a, [b EXCEPT !.m = 0 - b.m])

\* The range of the doubles: Number.MAX_VALUE is 1.7976931348623157e308, a
\* result above it is Infinity, and a result below 1e-324 is 0.  A finite
\* result within the range is kept exact, the rounding of its mantissa to
\* 53 bits is left out.  The limit is decided on the first four digits.
MaxMagnitude == 309
MaxLeading   == 1797
MinMagnitude == 0 - 323

Zero == [k |-> "fin", m |-> 0, d |-> 0]
One  == [k |-> "fin", m |-> 1, d |-> 0]

Leading(n) == DigitsToNat(SubSeq(NatToDigits(Abs(n.m)) \o <<"0", "0", "0">>, 1, 4))

\* the double that holds the finite number n
double(n) ==
  IF n.k # "fin" \/ n.m = 0
  THEN n
  ELSE IF Magnitude(n) > MaxMagnitude \/ (Magnitude(n) = MaxMagnitude /\ Leading(n) > MaxLeading)
       THEN [k |-> "inf", m |-> Sign(n.m), d |-> 0]
       ELSE IF Magnitude(n) < MinMagnitude THEN Zero ELSE n

\* -a, a + b, a - b and a * b on numbers
dblNeg(a) == [a EXCEPT !.m = 0 - a.m]

dblAdd(a, b) ==
  IF a.k = "nan" \/ b.k = "nan"
  THEN NaN.v
  ELSE IF a.k = "inf" /\ b.k = "inf"
       THEN (IF a.m = b.m THEN a ELSE NaN.v)
       ELSE IF a.k = "inf"
            THEN a
            ELSE IF b.k = "inf" THEN b ELSE double(numAdd(a, b))

dblSub(a, b) == dblAdd(a, dblNeg(b))

dblMul(a, b) ==
  IF a.k = "nan" \/ b.k = "nan"
  THEN NaN.v
  ELSE IF a.k = "inf" \/ b.k = "inf"
       THEN (IF a.m = 0 \/ b.m = 0
             THEN NaN.v
             ELSE [k |-> "inf", m |-> Sign(a.m) * Sign(b.m), d |-> 0])
       ELSE double([k |-> "fin", m |-> a.m * b.m, d |-> a.d + b.d])

\* values.reduce((a, b) => a + b, 0)
RECURSIVE numSum(_)
numSum(values) ==
  IF values = <<>>
  THEN [k |-> "fin", m |-> 0, d |-> 0]
  ELSE numAdd(numSum(SubSeq(values, 1, Len(values) - 1)), ToNumber(values[Len(values)]))

\* the integer nearest to n / den, halves away from zero (den > 0)
RoundDiv(n, den) ==
  LET a == IF n < 0 THEN 0 - n ELSE n
      q == (2 * a + den) \div (2 * den)
  IN IF n < 0 THEN 0 - q ELSE q

\* Number((num / den).toFixed(digits)) for the finite number num and den > 0
toFixedOf(num, den, digits) ==
  IF num.d <= digits
  THEN Normalize(RoundDiv(num.m * Pow10(digits - num.d), den), digits)
  ELSE Normalize(RoundDiv(num.m, den * Pow10(num.d - digits)), digits)

\* Math.min(...values) and Math.max(...values) of a non-empty sequence
numMin(values) ==
  ToNumber(values[CHOOSE i \in 1..Len(values) :
     \A j \in 1..Len(values) : ~numLess(ToNumber(values[j]), ToNumber(values[i]))])

numMax(values) ==
  ToNumber(values[CHOOSE i \in 1..Len(values) :
     \A j \in 1..Len(values) : ~numLess(ToNumber(values[i]), ToNumber(values[j]))])

\* normalizeMinMax: each value as the quotient num / den of
\* ((val - min) / range) * 100, and 0 for all when the range is 0
normalizeMinMax(values) ==
  IF values = <<>>
  THEN <<>>
  ELSE LET min   == numMin(values)
           range == dblSub(numMax(values), min)
       IN [i \in 1..Len(values) |->
             IF range.k = "fin" /\ range.m = 0
             THEN [num |-> Zero, den |-> [k |-> "fin", m |-> 1, d |-> 0]]
             ELSE [num |-> dblSub(ToNumber(values[i]), min), den |-> range]]

\* the quotient num / den is NaN: one of them is NaN, or both are infinite,
\* or both are 0
IsNaNQuotient(q) ==
  \/ q.num.k = "nan" \/ q.den.k = "nan"
  \/ q.num.k = "inf" /\ q.den.k = "inf"
  \/ q.num.k = "fin" /\ q.num.m = 0 /\ q.den.k = "fin" /\ q.den.m = 0

\* Number((((val - min) / range) * 100).toFixed(1)) for a quotient
toFixed1(q) ==
  IF IsNaNQuotient(q)
  THEN NaN
  ELSE IF q.den.k = "inf"
  THEN Num(0)
  ELSE IF q.num.k = "inf" \/ q.den.m = 0
  THEN (IF Sign(q.num.m) * Sign(q.den.m) < 0 THEN MinusInfinity ELSE Infinity)
  ELSE
  LET D == Max({q.num.d, q.den.d})
  IN Normalize(RoundDiv(q.num.m * Pow10(D - q.num.d) * 1000, q.den.m * Pow10(D - q.den.d)), 1)

(***************************************************************************)
(* Number(text) on a trimmed text (StringToNumber): a signed decimal       *)
(* literal with an optional exponent, a signed Infinity, a literal of      *)
(* base 16, 8 or 2, 0 for the empty text and NaN for any other text.       *)
(***************************************************************************)
HexValue(c) ==
  IF IsDigit(c)
  THEN DigitValue(c)
  ELSE 9 + (CHOOSE i \in 1..6 : <<"a","b","c","d","e","f">>[i] = LowerChar(c))

\* the number written by digits of the given base
RECURSIVE RadixToNat(_, _)
RadixToNat(ds, base) ==
  IF ds = <<>>
  THEN 0
  ELSE base * RadixToNat(SubSeq(ds, 1, Len(ds) - 1), base) + HexValue(ds[Len(ds)])

RadixOf(c) == IF LowerChar(c) = "x" THEN 16 ELSE IF LowerChar(c) = "o" THEN 8 ELSE 2

StringToNumber(s) ==
  LET neg  == Len(s) >= 1 /\ s[1] = "-"
      k    == IF Len(s) >= 1 /\ s[1] \in {"+", "-"} THEN 2 ELSE 1
      a    == DigitRunEnd(s, k)
      dot  == a <= Len(s) /\ s[a] = "."
      b    == IF dot THEN DigitRunEnd(s, a + 1) ELSE a
      ip   == SubSeq(s, k, a - 1)
      fp   == IF dot THEN SubSeq(s, a + 1, b - 1) ELSE <<>>
      q    == IF b + 1 <= Len(s) /\ s[b + 1] \in {"+", "-"} THEN b + 2 ELSE b + 1
      e    == IF b > Len(s)
              THEN 0
              ELSE IF s[b + 1] = "-"
                   THEN 0 - DigitsToNat(SubSeq(s, q, Len(s)))
                   ELSE DigitsToNat(SubSeq(s, q, Len(s)))
      sig  == Significant(ip \o fp)
      magnitude == Len(sig) - Len(fp) + e
      leading   == DigitsToNat(SubSeq(sig \o <<"0", "0", "0">>, 1, 4))
      infinite  == IF neg THEN MinusInfinity ELSE Infinity
  IN IF ~IsNumericText(s)
     THEN NaN
     ELSE IF s = <<>>
     THEN Num(0)
     ELSE IF SubSeq(s, k, Len(s)) = <<"I","n","f","i","n","i","t","y">>
     THEN infinite
     ELSE IF IsRadixLiteral(s)
     THEN Num(RadixToNat(SubSeq(s, 3, Len(s)), RadixOf(s[2])))
     ELSE IF sig = <<>> \/ magnitude < MinMagnitude
     THEN Num(0)
     ELSE IF magnitude > MaxMagnitude \/ (magnitude = MaxMagnitude /\ leading > MaxLeading)
     THEN infinite
     ELSE Normalize(IF neg THEN 0 - DigitsToNat(sig) ELSE DigitsToNat(sig), Len(fp) - e)
(***************************************************************************)
(* FilterPanel: numericColumns, getMinMax and handleNumericFilterChange.   *)
(***************************************************************************)
STR_Price == <<"P","r","i","c","e">>

\* the columns that have sliders: typeof data[0][key] === 'number' &&
\* !key.includes('Price')
sliderColumns(d) ==
  LET shown(key) == ~includes(key, STR_Price)
  IN SelectSeq(numericColumns(d), shown)

\* the range that a slider was never moved in
NoRange == [min |-> Undefined, max |-> Undefined]

\* Math.min(a, b) and Math.max(a, b) of two numbers other than NaN
min2(a, b) == IF numLess(b.v, a.v) THEN b ELSE a
max2(a, b) == IF numLess(a.v, b.v) THEN b ELSE a

\* getMinMax(column): null passes !isNaN(v) && isFinite(v) and counts as 0
getMinMax(d, column) ==
  LET kept(v) == notNaN(v) /\ ((typeof(v) = "number") => isFinite(v))
      values  == SelectSeq([i \in 1..Len(d) |-> Get(d[i], column)], kept)
  IN IF values = <<>>
     THEN [min |-> Num(0), max |-> Num(100)]
     ELSE IF ~numLess(numMin(values), numMax(values))
          THEN [min |-> [t |-> "number", v |-> dblSub(numMin(values), One)],
                max |-> [t |-> "number", v |-> dblAdd(numMax(values), One)]]
          ELSE [min |-> [t |-> "number", v |-> numMin(values)],
                max |-> [t |-> "number", v |-> numMax(values)]]

\* handleNumericFilterChange(column, type, value): the filters given to
\* onFiltersChange, and the filters as they are when the value is ignored
handleNumericFilterChange(f, d, column, type, value) ==
  IF ~isFinite(value)
  THEN f
  ELSE LET range   == getMinMax(d, column)
           clamped == max2(range.min, min2(range.max, value))
           old     == IF HasKey(f.numericFilters, column)
                      THEN f.numericFilters.val[column]
                      ELSE NoRange
       IN [f EXCEPT !.numericFilters =
             Put(f.numericFilters, column,
                 IF type = "min" THEN [old EXCEPT !.min = clamped]
                                 ELSE [old EXCEPT !.max = clamped])]
(***************************************************************************)
(* statistics.ts: calculatePearsonCorrelation, calculateLinearRegression   *)
(* and calculateStatistics.  A division is kept as the quotient num / den  *)
(* of two numbers and a square root as its radicand, so that the results   *)
(* are exact within the range of the doubles.                              *)
(***************************************************************************)
\* y[i] as arithmetic reads it: NaN beyond the end of the array
At(y, i) == IF i \in 1..Len(y) THEN ToNumber(y[i]) ELSE NaN.v

\* x.reduce((a, b) => a + b, 0) over the first k elements
RECURSIVE dblSum(_, _)
dblSum(x, k) ==
  IF k = 0 THEN Zero ELSE dblAdd(dblSum(x, k - 1), ToNumber(x[k]))

\* x.reduce((acc, xi, i) => acc + xi * y[i], 0) over the first k elements
RECURSIVE sumProducts(_, _, _)
sumProducts(x, y, k) ==
  IF k = 0 THEN Zero ELSE dblAdd(sumProducts(x, y, k - 1), dblMul(ToNumber(x[k]), At(y, k)))

\* n * sumXX - sumX * sumX
spread(x) ==
  dblSub(dblMul(Num(Len(x)).v, sumProducts(x, x, Len(x))),
         dblMul(dblSum(x, Len(x)), dblSum(x, Len(x))))

\* n * sumXY - sumX * sumY
covariation(x, y) ==
  dblSub(dblMul(Num(Len(x)).v, sumProducts(x, y, Len(x))),
         dblMul(dblSum(x, Len(x)), dblSum(y, Len(y))))

\* calculatePearsonCorrelation: the number num / sqrt(rad), and 0 as
\* 0 / sqrt(1) when the lengths differ, n < 2 or the denominator is 0
calculatePearsonCorrelation(x, y) ==
  IF Len(x) # Len(y) \/ Len(x) < 2
  THEN [num |-> Zero, rad |-> One]
  ELSE LET rad == dblMul(spread(x), spread(y))
       IN IF rad.k = "fin" /\ rad.m = 0
          THEN [num |-> Zero, rad |-> One]
          ELSE [num |-> covariation(x, y), rad |-> rad]

\* the number that a quotient is when it is not the ratio of a finite number
\* and a finite number other than 0: NaN, 0 or an infinity
IsRatio(q) == q.num.k = "fin" /\ q.den.k = "fin" /\ q.den.m # 0

Collapsed(q) ==
  IF IsNaNQuotient(q)
  THEN NaN.v
  ELSE IF q.den.k = "inf"
       THEN Zero
       ELSE [k |-> "inf", m |-> IF Sign(q.num.m) * Sign(q.den.m) < 0 THEN 0 - 1 ELSE 1, d |-> 0]

NoRegression ==
  [slope     |-> [num |-> Zero, den |-> One],
   intercept |-> [num |-> Zero, den |-> One],
   rSquared  |-> [num |-> Zero, den |-> One]]

\* slope, intercept and rSquared as quotients; for a slope that is the ratio
\* num / den, the intercept (sumY - slope * sumX) / n is
\* (sumY * den - num * sumX) / (den * n)
regression(x, y) ==
  LET n     == Num(Len(x)).v
      sumX  == dblSum(x, Len(x))
      sumY  == dblSum(y, Len(y))
      slope == [num |-> covariation(x, y), den |-> spread(x)]
      c     == calculatePearsonCorrelation(x, y)
  IN [slope     |-> slope,
      intercept |-> IF IsRatio(slope)
                    THEN [num |-> dblSub(dblMul(sumY, slope.den), dblMul(slope.num, sumX)),
                          den |-> dblMul(slope.den, n)]
                    ELSE [num |-> dblSub(sumY, dblMul(Collapsed(slope), sumX)), den |-> n],
      rSquared  |-> IF c.num.k = "fin" /\ c.rad.k = "inf"
                    THEN [num |-> Zero, den |-> One]
                    ELSE [num |-> dblMul(c.num, c.num), den |-> c.rad]]

\* calculateLinearRegression
calculateLinearRegression(x, y) ==
  IF Len(x) < 2 THEN NoRegression ELSE regression(x, y)

\* mutant: the values are read in the order given
sortAscending_unsorted(values) == values

\* [...values].sort((a, b) => a - b) of numbers other than NaN: each value
\* is put after the values that are not greater
RECURSIVE sortAscending(_)
sortAscending(values) ==
  IF values = <<>>
  THEN <<>>
  ELSE LET rest == sortAscending(SubSeq(values, 1, Len(values) - 1))
           last == values[Len(values)]
           k    == Cardinality({i \in 1..Len(rest) : ~numLess(ToNumber(last), ToNumber(rest[i]))})
       IN SubSeq(rest, 1, k) \o <<last>> \o SubSeq(rest, k + 1, Len(rest))

\* mutant: the array given is sorted in place
valuesAfterStatistics_sorted(values) == sortAscending(values)

\* the array given to calculateStatistics once it has returned: the sort is
\* that of the copy [...values]
valuesAfterStatistics(values) == values

\* calculateStatistics: the indices are Math.floor(n * 0.25), Math.floor(n *
\* 0.5) and Math.floor(n * 0.75); the variance is (n * sum of squares -
\* sum * sum) / (n * n) and stdDev is its square root
calculateStatistics(values) ==
  IF Len(values) = 0
  THEN Null
  ELSE LET sorted == sortAscending(values)
           n      == Len(values)
       IN [t |-> "object",
           v |-> [mean     |-> [num |-> dblSum(values, n), den |-> Num(n).v],
                  median   |-> sorted[(n \div 2) + 1],
                  variance |-> [num |-> spread(values), den |-> Num(n * n).v],
                  q1       |-> sorted[(n \div 4) + 1],
                  q3       |-> sorted[((3 * n) \div 4) + 1],
                  min      |-> sorted[1],
                  max      |-> sorted[n],
                  count    |-> n]]
\* d.Base || d['Base Material'] || d['Material']
baseMaterial(d) ==
  IF Truthy(Get(d, KEY_Base))
  THEN Get(d, KEY_Base)
  ELSE IF Truthy(Get(d, KEY_Base_Material))
       THEN Get(d, KEY_Base_Material)
       ELSE Get(d, KEY_Material)

\* the entry is grouped: its base material is truthy and not 'undefined'
IsGrouped(d) == Truthy(baseMaterial(d)) /\ baseMaterial(d) # Str(STR_undefined)

\* the keys of groupedByBaseMaterial in the order of their first entry (the
\* names of the materials are not array indices)
RECURSIVE groupNames(_, _)
groupNames(data, acc) ==
  IF data = <<>>
  THEN acc
  ELSE groupNames(Tail(data),
                  IF IsGrouped(Head(data)) /\ String(baseMaterial(Head(data))) \notin Range(acc)
                  THEN Append(acc, String(baseMaterial(Head(data))))
                  ELSE acc)

\* the values of a column in the items that !isNaN keeps
keptValues(items, column) ==
  SelectSeq([i \in 1..Len(items) |-> Get(items[i], column)], notNaN)

\* the means of one group: the columns with a kept value, each with
\* Number(mean.toFixed(2))
RECURSIVE groupMeans(_, _, _)
groupMeans(items, columns, result) ==
  IF columns = <<>>
  THEN result
  ELSE groupMeans(items, Tail(columns),
                  IF Len(keptValues(items, Head(columns))) > 0
                  THEN Put(result, Head(columns),
                           toFixedOf(numSum(keptValues(items, Head(columns))),
                                     Len(keptValues(items, Head(columns))), 2))
                  ELSE result)

\* barData
barData(data) ==
  IF Len(data) = 0 \/ Len(numericColumns(data)) = 0
  THEN <<>>
  ELSE LET names == groupNames(data, <<>>)
           columns == SubSeq(numericColumns(data), 1, Min({BarColumns, Len(numericColumns(data))}))
       IN [g \in 1..Len(names) |->
             [material |-> names[g],
              means |-> groupMeans(SelectSeq(data, LAMBDA d : IsGrouped(d) /\ String(baseMaterial(d)) = names[g]),
                                   columns, EmptyObject)]]

\* (a['Tensile (kg)'] || 0) + (a['Layer adhesion (kg)'] || 0)
score(a) ==
  numAdd(IF Truthy(Get(a, KEY_Tensile_kg)) THEN ToNumber(Get(a, KEY_Tensile_kg)) ELSE ToNumber(Null),
         IF Truthy(Get(a, KEY_Layer_adhesion)) THEN ToNumber(Get(a, KEY_Layer_adhesion)) ELSE ToNumber(Null))

\* data.slice().sort((a, b) => bScore - aScore).slice(0, n): the positions of
\* the n entries of highest score, the earlier first among equal scores
RECURSIVE topPositions(_, _, _)
topPositions(data, left, n) ==
  IF n = 0 \/ left = {}
  THEN <<>>
  ELSE LET best == CHOOSE i \in left :
                     \A j \in left :
                        \/ numLess(score(data[j]), score(data[i]))
                        \/ (~numLess(score(data[i]), score(data[j])) /\ i <= j)
       IN <<best>> \o topPositions(data, left \ {best}, n - 1)

\* one entry of chartData: for each top filament the normalized value,
\* Number(normalizedValue.toFixed(1)), and the actual value
radarEntry(data, top, column) ==
  LET allValues  == keptValues(data, column)
      normalized == normalizeMinMax(allValues)
      indexOf(v) == Min({i \in 1..Len(allValues) : allValues[i] = v})
  IN [originalColumnName |-> column,
      filament |-> [j \in 1..Len(top) |->
                      IF Get(data[top[j]], column) \in Range(allValues)
                      THEN toFixed1(normalized[indexOf(Get(data[top[j]], column))])
                      ELSE Num(0)],
      actual |-> [j \in 1..Len(top) |-> Get(data[top[j]], column)]]

\* radarData: [] when there is no data or fewer than 3 numeric columns
radarData(data) ==
  IF Len(data) = 0 \/ Len(numericColumns(data)) < MinRadarColumns
  THEN [data |-> <<>>, filaments |-> <<>>]
  ELSE LET top == topPositions(data, 1..Len(data), TopFilaments)
           keyColumns == SubSeq(numericColumns(data), 1, Min({RadarColumns, Len(numericColumns(data))}))
       IN [data |-> [c \in 1..Len(keyColumns) |-> radarEntry(data, top, keyColumns[c])],
           filaments |-> [j \in 1..Len(top) |-> data[top[j]]]]
(***************************************************************************)
(* The inputs of the model.                                                *)
(***************************************************************************)
\* all concatenations of at most n of the fragments
RECURSIVE Concats(_, _)
Concats(fragments, n) ==
  IF n = 0
  THEN {<<>>}
  ELSE LET shorter == Concats(fragments, n - 1)
       IN shorter \cup {s \o f : s \in shorter, f \in fragments}

\* the fragments of the texts given to sanitizeString
TextFragments ==
  {<<"j","a","v","a">>, <<"s","c","r","i","p","t",":">>, <<"J","a","v","a","S","c","r","i","p","t",":">>, <<"<">>, <<">">>, <<"<","s","c","r","i","p","t",">">>, <<"<","/","s","c","r","i","p","t",">">>,
   <<"o","n">>, <<"x"," ","=">>, <<" ">>, <<"a">>}

Texts == Concats(TextFragments, MaxFrags)

\* the fragments of the texts given to validateUrl
UrlFragments ==
  {<<"h","t","t","p","s",":","/","/">>, <<"H","T","T","P",":","/","/">>, <<"f","t","p",":","/","/">>, <<"j","a","v","a","s","c","r","i","p","t",":">>, <<"y","o","u","t","u",".","b","e">>, <<"Y","o","u","T","u","b","e",".","c","o","m">>,
   <<"e","v","i","l",".">>, <<"e","v","i","l">>, <<"/","x">>, <<"<">>, <<" ">>, <<"@">>}

UrlTexts == Concats(UrlFragments, MaxFrags)

\* a text of n characters
LongText(n) == [i \in 1..n |-> "a"]

HDR_Brand_Notes == <<Str(<<"B","r","a","n","d">>), Str(<<"N","o","t","e","s">>)>>
HDR_Brand_Link  == <<Str(<<"B","r","a","n","d">>), Str(<<"Y","o","u","T","u","b","e"," ","L","i","n","k">>)>>
HDR_Five        == <<Str(<<"B","r","a","n","d">>), Str(<<"F","i","l","a","m","e","n","t"," ","t","y","p","e">>), Str(<<"M","a","t","e","r","i","a","l">>), Str(<<"T","y","p","e">>),
                     Str(<<"N","o","t","e","s">>)>>
HDR_Six         == <<Str(<<"B","r","a","n","d">>), Str(<<"F","i","l","a","m","e","n","t"," ","t","y","p","e">>), Str(<<"M","a","t","e","r","i","a","l">>), Str(<<"T","y","p","e">>),
                     Str(<<"N","o","t","e","s">>), Str(<<"T","e","n","s","i","l","e"," ","(","k","g",")">>)>>

\* the rows of n cells drawn from the set cells
RECURSIVE RowsOver(_, _)
RowsOver(cells, n) ==
  IF n = 0 THEN {<<>>} ELSE {Append(r, c) : r \in RowsOver(cells, n - 1), c \in cells}

\* the pairs of a header row and a raw row given to validateAndSanitizeRow
RowInputs ==
  {<<HDR_Brand_Notes, <<Str(<<"A","c","m","e">>), Str(t)>>>> : t \in Texts}
  \cup {<<HDR_Brand_Link, <<Str(<<"A","c","m","e">>), Str(t)>>>> : t \in UrlTexts}
  \cup {<<HDR_Brand_Notes, <<Str(<<"A","c","m","e">>), Str(LongText(n))>>>> :
          n \in {MaxStringLength - 1, MaxStringLength, MaxStringLength + 1}}
  \cup {<<HDR_Brand_Link, <<Str(<<"A","c","m","e">>), Str(<<"h","t","t","p","s",":","/","/","y","o","u","t","u",".","b","e","/">> \o LongText(MaxStringLength))>>>>}
  \cup {<<HDR_Five, r>> : r \in RowsOver({Undefined, Str(<<"P","L","A">>), Str(<<"<",">">>), Num(0)}, 5)}
  \cup {<<HDR_Six, r>> : r \in RowsOver({Undefined, Str(<<"P","L","A">>), Num(0)}, 6)}

\* the header rows of the generated sheets: plain, with blank, missing and
\* fully sanitized-away cells and a repeated key, with a numeric cell, empty
HDR_Plain == <<Str(<<"N","r">>), Str(<<"B","r","a","n","d">>), Str(<<"N","o","t","e","s">>)>>
HDR_Gaps  == <<Str(<<"B","r","a","n","d">>), Str(<<" ">>), Undefined, Str(<<"<",">">>), Str(<<"<","T","y","p","e",">">>), Str(<<"T","y","p","e">>)>>
HDR_Num   == <<Str(<<"N","r">>), Str(<<"B","r","a","n","d">>), Num(7)>>

HeaderRows == {HDR_Plain, HDR_Gaps, HDR_Num, <<>>}

\* the data rows generated under the plain header row
PlainRows ==
  {<<>>,
   <<Num(1), Str(<<"A","c","m","e">>), Str(<<"P","L","A">>)>>,
   <<Num(2), Str(<<"A","c","m","e">>)>>,
   <<Num(1), Str(<<"u","n","d","e","f","i","n","e","d">>), Str(<<"P","L","A">>)>>,
   <<Num(1), Str(<<"U","N","D","E","F","I","N","E","D">>), Str(<<"P","L","A">>)>>,
   <<Num(1), Str(<<" ">>), Str(<<"P","L","A">>)>>,
   <<Num(1), Undefined, Str(<<"P","L","A">>)>>,
   <<Num(1), Num(0), Str(<<"P","L","A">>)>>,
   <<Str(<<>>), Str(<<"A","c","m","e">>), Undefined>>,
   <<Num(1), Str(<<"A","c","m","e">>), Str(<<"s","e","e"," ","N","o","t","e",":"," ","x">>)>>,
   <<Str(<<"H","e","a","d","e","r">>), Str(<<"A","c","m","e">>), Str(<<"P","L","A">>)>>,
   <<Str(<<"n","e","w">>), Str(<<"r","o","w","s">>), Num(2)>>,
   <<Num(1), Str(<<"A","c","m","e">>), Str(<<"O","r","a","n","g","e"," ","B","G">>)>>,
   <<Num(1), Str(<<"M","e","t","a","d","a","t","a">>), Str(<<"P","L","A">>)>>,
   <<Num(1), Str(<<"A","c","m","e">>), Str(<<"n","o"," ","c","o","m","m","e","n","t">>)>>,
   <<Bool(TRUE), Str(<<"<",">">>), Dec(125, 1)>>}

\* the data rows generated under the other header rows
GapRows ==
  {<<Str(<<"A","c","m","e">>), Str(<<"x">>), Str(<<"y">>), Str(<<"z">>), Str(<<"P","L","A">>), Str(<<"P","E","T","G">>)>>,
   <<Str(<<"A","c","m","e">>), Str(<<"x">>)>>,
   <<Undefined, Str(<<"A","c","m","e">>), Undefined, Undefined, Str(<<"P","L","A">>)>>,
   <<Num(1), Str(<<"A","c","m","e">>), Undefined, Undefined, Undefined, Str(<<"j","a","v","a","<","s","c","r","i","p","t",":">>)>>}

DataRowsOf(h) == IF h = HDR_Plain THEN PlainRows ELSE GapRows

TitleRow == <<Str(<<"M","y","T","e","c","h","F","u","n">>)>>

\* the sheets: too short ones, and a title row, a header row and data rows
RawSheets ==
  {<<>>, <<TitleRow>>}
  \cup {<<TitleRow, h>> : h \in HeaderRows}
  \cup UNION {{<<TitleRow, h>> \o rows :
                 rows \in UNION {[1..n -> DataRowsOf(h)] : n \in 1..MaxDataRows}} :
              h \in HeaderRows}

NAME_Filaments == <<"F","i","l","a","m","e","n","t","s">>
NAME_Flexible  == <<"F","l","e","x","i","b","l","e"," ","f","i","l","a","m","e","n","t","s">>
NAME_Sheet1    == <<"S","h","e","e","t","1">>
NAME_Data      == <<"F","I","L","A","M","E","N","T"," ","d","a","t","a">>

SheetNameSet == {NAME_Filaments, NAME_Flexible, NAME_Sheet1, NAME_Data}

SheetA == <<TitleRow, HDR_Plain, <<Num(1), Str(<<"A","c","m","e">>), Str(<<"P","L","A">>)>>>>
SheetB == <<TitleRow, HDR_Plain, <<Num(2), Str(<<"B","o","l","t">>), Str(<<"P","E","T","G">>)>>>>

\* the workbooks: one sheet of any content, or two sheets under two names
Workbooks ==
  {[SheetNames |-> <<NAME_Filaments>>, Sheets |-> [n \in {NAME_Filaments} |-> s]] :
     s \in RawSheets}
  \cup {[SheetNames |-> names,
         Sheets |-> [n \in Range(names) |-> IF n = names[1] THEN SheetA ELSE SheetB]] :
          names \in {ns \in SheetNameSet \X SheetNameSet : ns[1] # ns[2]}}

\* the files given to parseExcelFile
Files ==
  [size : {MAX_FILE_SIZE, MAX_FILE_SIZE + 1},
   type : allowedTypes \cup {"text/csv"}]


\* a sheet with the columns that the filters and the charts read
HDR_Measured == <<Str(<<"B","r","a","n","d">>), Str(<<"F","i","l","a","m","e","n","t"," ","t","y","p","e">>), Str(<<"B","a","s","e">>), Str(<<"T","e","n","s","i","l","e"," ","(","k","g",")">>), Str(<<"L","a","y","e","r"," ","a","d","h","e","s","i","o","n"," ","(","k","g",")">>)>>
HDR_Unmeasured == <<Str(<<"B","r","a","n","d">>), Str(<<"F","i","l","a","m","e","n","t"," ","t","y","p","e">>), Str(<<"N","o","t","e","s">>)>>

ROW_Acme == <<Str(<<"A","c","m","e">>), Str(<<"P","L","A">>), Str(<<"P","L","A">>), Num(40), Num(20)>>
ROW_Bolt == <<Str(<<"B","o","l","t">>), Str(<<"P","L","A">>), Str(<<"P","E","T","G">>), Num(50)>>
ROW_Core == <<Str(<<"C","o","r","e">>), Str(<<"A","B","S">>), Str(<<"A","B","S">>), Num(30), Num(10)>>

SheetOf(h, rows) == <<TitleRow, h>> \o rows

\* the sheets decoded for the uploads of App: two that give a dataset that
\* passes validateExcelData, one whose dataset does not, one too short
AppSheets ==
  {SheetOf(HDR_Measured, <<ROW_Acme, ROW_Bolt>>),
   SheetOf(HDR_Measured, <<ROW_Core>>),
   SheetOf(HDR_Unmeasured, <<<<Str(<<"A","c","m","e">>), Str(<<"P","L","A">>), Str(<<"x">>)>>>>),
   <<TitleRow>>}

AppWorkbooks ==
  {[SheetNames |-> <<NAME_Filaments>>, Sheets |-> [n \in {NAME_Filaments} |-> s]] :
     s \in AppSheets}

\* what the try block of reader.onload makes of each of them
ParsedWorkbooks ==
  {processSheet(workbook.Sheets[selectSheetName(workbook)]) : workbook \in AppWorkbooks}

\* the item found in localStorage when App mounts
StoredItems ==
  {NoItem, CorruptItem,
   JSONstringify(processSheet(SheetOf(HDR_Measured, <<ROW_Core>>)).data)}

\* the object with the given keys and values, in the order of the pairs
ObjectOf(pairs) ==
  [keys |-> [i \in 1..Len(pairs) |-> pairs[i][1]],
   val  |-> [key \in {pairs[i][1] : i \in 1..Len(pairs)} |->
               (CHOOSE pair \in Range(pairs) : pair[1] = key)[2]]]

\* a string of n characters, and n copies of a record
Chars(n)     == [i \in 1..n |-> "a"]
Repeat(n, r) == [i \in 1..n |-> r]

KEY_Notes   == <<"N","o","t","e","s">>
KEY_Density == <<"D","e","n","s","i","t","y">>

\* the fields of the records given to validateExcelData: none or one
\* identifying column, none or one column named as a measurement, none or
\* one other column
IdentifyingFields ==
  {<<>>, <<<<KEY_Brand, Str(<<"A","c","m","e">>)>>>>, <<<<KEY_Filament_type, Str(<<"P","L","A">>)>>>>,
   <<<<KEY_Material, Null>>>>, <<<<KEY_Type, Str(<<"C","F">>)>>>>, <<<<KEY_Name, Str(<<"A","c","m","e"," ","P","L","A">>)>>>>}

MeasurementFields ==
  {<<>>, <<<<KEY_Tensile_kg, Num(40)>>>>, <<<<KEY_Tensile_kg, Null>>>>,
   <<<<<<"t","e","n","s","i","l","e"," ","(","k","g",")">>, Num(40)>>>>, <<<<<<"L","a","y","e","r"," ","a","d","h","e","s","i","o","n"," ","(","k","g",")">>, Str(<<"2","0">>)>>>>,
   <<<<<<"I","Z","O","D"," ","i","m","p","a","c","t">>, Dec(55, 1)>>>>, <<<<<<"T","e","n","s","i","l","e"," ","<","k","g",">">>, Num(40)>>>>}

OtherFields ==
  {<<>>, <<<<KEY_Notes, Str(Chars(MaxValueLength))>>>>, <<<<KEY_Notes, Str(Chars(MaxValueLength + 1))>>>>,
   <<<<KEY_Density, Dec(1, 0 - MagnitudeExponent)>>>>, <<<<KEY_Density, Dec(0 - 11, 1 - MagnitudeExponent)>>>>,
   <<<<KEY_Density, NaN>>>>, <<<<KEY_Density, Infinity>>>>,
   <<<<Chars(MaxColumnLength + 1), Num(1)>>>>}

FirstRecords ==
  {ObjectOf(i \o m \o o) : i \in IdentifyingFields, m \in MeasurementFields, o \in OtherFields}

\* a record without any diagnostic, and records with one and with two
\* issues, of a long string and of a number that is not finite
SoundRecord  == ObjectOf(<<<<KEY_Brand, Str(<<"B","o","l","t">>)>>, <<KEY_Tensile_kg, Num(50)>>>>)
OneIssue     == ObjectOf(<<<<KEY_Notes, Str(Chars(MaxValueLength + 1))>>>>)
TwoIssues    == ObjectOf(<<<<KEY_Notes, Str(Chars(MaxValueLength + 1))>>, <<KEY_Density, NaN>>>>)
Unreasonable == ObjectOf(<<<<KEY_Density, NaN>>>>)

\* the datasets given to validateExcelData: none, one or two records, the
\* issues around the number listed one by one, records around the end of
\* the sample, and datasets at the row limit and above it
ValidateDatasets ==
  {<<>>}
  \cup {<<first>> : first \in FirstRecords}
  \cup {<<first, SoundRecord>> : first \in FirstRecords}
  \cup {<<SoundRecord>> \o Repeat(n, OneIssue) : n \in {MaxIssuesListed - 1, MaxIssuesListed, MaxIssuesListed + 1}}
  \cup {<<TwoIssues, SoundRecord, TwoIssues>>, <<TwoIssues, TwoIssues, OneIssue>>, <<TwoIssues, TwoIssues, TwoIssues>>}
  \cup {Repeat(n, SoundRecord) \o <<OneIssue>> \o rest :
          n \in {SampleRows - 2, SampleRows - 1, SampleRows}, rest \in {<<>>, <<SoundRecord>>, <<TwoIssues>>}}
  \cup {Repeat(MAX_ROWS, SoundRecord), Repeat(MAX_ROWS, Unreasonable),
        Repeat(MAX_ROWS + 1, SoundRecord), Repeat(MAX_ROWS + 1, Unreasonable)}

\* the values given to sanitizeNumber: finite numbers of up to 12 decimals
\* and beyond 1e21, NaN and the infinities, strings with and without a
\* number in them, a string of 310 digits, and values of other types
NumberInputs ==
  {Dec(m, d) : m \in {0 - 123456789, 0 - 15, 0 - 1, 0, 1, 5, 15, 123456789}, d \in {0, 1, 10, 11, 12}}
  \cup {Dec(1, 0 - 21), Dec(0 - 1, 0 - 21), NaN, Infinity, MinusInfinity}
  \cup {Str(s) : s \in {<<>>, <<" ">>, <<"a","b","c">>, <<"1","2">>, <<"-","3",".","5">>, <<"1",".","2",".","3">>, <<"-","-","5">>, <<"-">>, <<".">>, <<".","5">>, <<"5",".">>, <<"-",".","5">>,
                        <<"1","-","2">>, <<"$","1",",","2","3","4",".","5","0">>, <<"1","e","5">>, <<"1","e","-","3">>, <<"2",".","5","E","+","2">>, <<"0","x","1","0">>, <<"+","5">>, <<"I","n","f","i","n","i","t","y">>, <<"-","I","n","f","i","n","i","t","y">>, <<"N","a","N">>, <<"1","2","a","b","c">>, <<" ","7"," ">>,
                        <<"0",".","0","0","0","0","0","0","0","0","0","0","5">>, <<"0",".","0","0","0","0","0","0","0","0","0","0","4">>, <<"-","0",".","0","0","0","0","0","0","0","0","0","0","5">>, <<"0","0","7">>,
                        [i \in 1..310 |-> "9"], <<"-">> \o [i \in 1..310 |-> "9"],
                        [i \in 1..310 |-> "0"]}}
  \cup {Undefined, Null, Bool(TRUE), Bool(FALSE)}

\* the records given to filteredData: with and without fibres, without a
\* base material and a measurement, with a text for a measurement, and with
\* a number for a brand
FilamentOf(brand, type, base, fibers, tensile) ==
  ObjectOf(<<<<KEY_Brand, brand>>, <<KEY_Filament_type, type>>, <<KEY_Base, base>>,
             <<KEY_Fibers, fibers>>, <<KEY_Tensile_kg, tensile>>>>)

REC_Acme == FilamentOf(Str(<<"A","c","m","e">>), Str(<<"P","L","A">>), Str(<<"P","L","A">>), Null, Num(40))
REC_Bolt == FilamentOf(Str(<<"B","o","l","t">>), Str(<<"P","E","T","G">>), Str(<<"P","E","T","G">>), Str(<<"C","F">>), Num(50))
REC_Bare == FilamentOf(Str(<<"A","c","m","e">>), Str(<<"P","L","A">>), Null, Null, Null)
REC_Text == FilamentOf(Str(<<"C","o","r","e">>), Str(<<"A","B","S">>), Str(<<"A","B","S">>), Str(<<"G","F">>), Str(<<"n","/","a">>))
REC_2024 == FilamentOf(Num(2024), Str(<<"P","L","A">>), Str(<<"P","L","A">>), Null, Dec(455, 1))

FilterRecords == {REC_Acme, REC_Bolt, REC_Bare, REC_Text, REC_2024}

FilterDatasets ==
  {<<>>}
  \cup {<<r>> : r \in FilterRecords}
  \cup {<<r, s>> : r \in FilterRecords, s \in FilterRecords}
  \cup {<<REC_Acme, REC_Bolt, REC_Bare>>, <<REC_Bolt, REC_Acme, REC_Bolt>>,
        <<REC_Text, REC_Bare, REC_Acme>>}

\* the sheets whose datasets are filtered: a brand that is a text, a number
\* and a text of digits
ROW_Numbered == <<Num(2024), Str(<<"P","L","A">>), Str(<<"P","L","A">>), Num(40), Num(20)>>
ROW_Digits   == <<Str(<<"2","0","2","4">>), Str(<<"P","L","A">>), Str(<<"P","L","A">>), Num(40), Num(20)>>

FilterSheets ==
  {SheetOf(HDR_Measured, rows) :
     rows \in {<<ROW_Acme>>, <<ROW_Numbered>>, <<ROW_Digits>>, <<ROW_Acme, ROW_Numbered>>}}

\* the values that the inputs of a slider give to handleNumericFilterChange
SliderValues == {Num(0), Num(45), Num(100), NaN}

\* one range of numericFilters, with both bounds or one
RangeOf(column, min, max) == ObjectOf(<<<<column, [min |-> min, max |-> max]>>>>)

\* the states of the filters: selections, search texts and ranges
FilterStates ==
  [brands         : {<<>>, <<Str(<<"A","c","m","e">>)>>, <<Str(<<"B","o","l","t">>), Str(<<"A","c","m","e">>)>>},
   filamentTypes  : {<<>>, <<Str(<<"P","L","A">>)>>},
   baseMaterials  : {<<>>, <<Str(<<"P","L","A">>)>>, <<Str(<<>>)>>},
   fiberBlends    : {<<>>, <<Str(<<"C","F">>)>>},
   searchText     : {<<>>, <<"p","l">>, <<"A","C">>, <<"z","z">>},
   numericFilters : {EmptyObject,
                     RangeOf(KEY_Tensile_kg, Num(40), Num(50)),
                     RangeOf(KEY_Tensile_kg, Num(45), Undefined),
                     RangeOf(KEY_Tensile_kg, Undefined, Num(45)),
                     RangeOf(KEY_Tensile_kg, Num(50), Num(40)),
                     RangeOf(KEY_Notes, Num(0), Num(1))}]

\* the records given to the charts, as parseExcelFile stores them: a blank
\* cell is null
KEY_Price == <<"P","r","i","c","e">>

EntryOf(brand, base, tensile, layer, price) ==
  ObjectOf(<<<<KEY_Brand, brand>>, <<KEY_Filament_type, Str(<<"P","L","A">>)>>, <<KEY_Base, base>>,
             <<KEY_Tensile_kg, tensile>>, <<KEY_Layer_adhesion, layer>>, <<KEY_Price, price>>>>)

ChartRecords ==
  {EntryOf(Str(<<"A","c","m","e">>), Str(<<"P","L","A">>), Num(40), Num(20), Num(25)),
   EntryOf(Str(<<"B","o","l","t">>), Str(<<"P","L","A">>), Num(50), Null, Num(30)),
   EntryOf(Str(<<"C","o","r","e">>), Str(<<"A","B","S">>), Num(30), Num(10), Num(20)),
   EntryOf(Str(<<"D","u","n","e">>), Null, Num(60), Num(30), Null),
   EntryOf(Str(<<"E","c","h","o">>), Str(<<"P","L","A">>), Dec(445, 1), Num(21), Num(25))}

\* the sequences of n different elements of S
Arrangements(S, n) == {q \in [1..n -> S] : \A i, j \in 1..n : (q[i] = q[j]) => (i = j)}

\* the datasets given to the charts: up to 4 different records in any order,
\* and one of two numeric columns
ChartDatasets ==
  {<<>>, <<ObjectOf(<<<<KEY_Brand, Str(<<"A","c","m","e">>)>>, <<KEY_Base, Str(<<"P","L","A">>)>>,
                      <<KEY_Tensile_kg, Num(40)>>, <<KEY_Price, Num(25)>>>>)>>}
  \cup UNION {Arrangements(ChartRecords, n) : n \in 1..4}

\* the arrays given to the functions of statistics.ts: up to MaxValues of
\* the numbers 1, 2 and 3 with an array of as many or one fewer of the
\* numbers 1 and 3, the arrays of the scenarios, and arrays of numbers near
\* the two ends of the range of the doubles
SmallArrays == UNION {[1..n -> {Num(1), Num(2), Num(3)}] : n \in 0..MaxValues}

Partners(x) ==
  UNION {[1..n -> {Num(1), Num(3)}] : n \in {k \in {Len(x) - 1, Len(x)} : k >= 0}}

StatInputs ==
  UNION {{<<x, y>> : y \in Partners(x)} : x \in SmallArrays}
  \cup {<<<<Num(1), Num(2), Num(3), Num(4)>>, <<Num(2), Num(4), Num(6), Num(9)>>>>,
        <<<<Num(5), Num(5), Num(5)>>, <<Num(1), Num(2), Num(4)>>>>,
        <<<<Dec(405, 1), Dec(0 - 25, 1), Num(0)>>, <<Num(7), Num(7), Num(7)>>>>,
        <<<<Num(0), Dec(1, 0 - 80)>>, <<Num(1), Num(2)>>>>,
        <<<<Dec(1, 100), Num(0)>>, <<Num(2), Num(1)>>>>,
        <<<<Dec(0 - 1, 0 - 308), Dec(1, 0 - 308)>>, <<Num(1), Num(2)>>>>,
        <<<<Dec(1, 0 - 308), Dec(1, 0 - 308)>>, <<Num(1), Num(2)>>>>}
(***************************************************************************)
(* State.                                                                  *)
(***************************************************************************)
VARIABLES
  text,        \* a text given to sanitizeString
  once,        \* sanitizeString(text)
  twice,       \* sanitizeString(sanitizeString(text))
  stage,       \* how many times the text was sanitized
  headerRow,   \* the header row given to validateAndSanitizeRow
  row,         \* the raw row given to validateAndSanitizeRow
  sanitized,   \* what validateAndSanitizeRow returned
  rowDone,     \* validateAndSanitizeRow has returned
  file,        \* the File given to parseExcelFile
  pc,          \* parseExcelFile: "idle", "reading" (FileReader pending), "settled"
  events,      \* the calls made so far: readAsArrayBuffer, XLSX.read, sheet_to_json
  book,        \* the workbook that XLSX.read returned
  rawData,     \* the rows of the selected sheet
  mappedRows,  \* the positions in rawData of the rows given to validateAndSanitizeRow
  sourceRows,  \* the position in rawData of the row of each record of the dataset
  result,      \* the Promise: pending, resolved with data, rejected with error
  mounted,     \* App: the effect that loads the persisted data has run
  data,        \* App: the dataset
  storage,     \* localStorage: the item 'mytechfun-filament-data'
  filters,     \* App: the FilterState
  chartConfig, \* App: the ChartConfig
  error,       \* App: the error message, or null
  loading,     \* App: the loading flag
  activeTab,   \* App: 'table' or 'charts'
  uploads,     \* the files of the handleFileUpload calls waiting for their FileReader
  last,        \* how the handleFileUpload call that the latest step finished ended
  decoded,     \* what reader.onload makes of each workbook that a file may hold
  dataset,     \* a dataset given to validateExcelData
  diagnostics, \* what validateExcelData returned
  value,       \* a value given to sanitizeNumber
  number,      \* what sanitizeNumber returned
  records,     \* the data of filteredData
  criteria,    \* the filters of filteredData
  filtered,    \* what filteredData returned
  chartInput,  \* the data given to Charts
  bar,         \* barData
  radar,       \* radarData
  xs,          \* the first array given to a function of statistics.ts
  ys,          \* the second array
  stats,       \* the array given to calculateStatistics and what it returned
  normalized,  \* what normalizeMinMax returned
  correlation, \* the arrays given to calculatePearsonCorrelation and what it returned
  line         \* what calculateLinearRegression returned

pureVars     == <<text, once, twice, stage>>
rowVars      == <<headerRow, row, sanitized, rowDone>>
parseVars    == <<file, pc, events, book, rawData, mappedRows, sourceRows, result>>
appVars      == <<mounted, data, storage, filters, chartConfig, error, loading,
                  activeTab, uploads, last, decoded>>
validateVars == <<dataset, diagnostics>>
numberVars   == <<value, number>>
filterVars   == <<records, criteria, filtered>>
statVars     == <<xs, ys, stats, normalized, correlation, line>>
chartVars    == <<chartInput, bar, radar, statVars>>

\* the variables of the ingestion functions and those of their callers
coreVars == <<pureVars, rowVars, parseVars>>
viewVars == <<appVars, validateVars, numberVars, filterVars, chartVars>>

vars == <<coreVars, viewVars>>

Pending == [settled |-> "pending", data |-> <<>>, error |-> ""]

\* no workbook was decoded
NoWorkbook == [SheetNames |-> <<>>, Sheets |-> <<>>]

PureIdle ==
  /\ text = <<>>
  /\ once = <<>>
  /\ twice = <<>>
  /\ stage = 0

RowIdle ==
  /\ headerRow = <<>>
  /\ row = <<>>
  /\ sanitized = [kind |-> "null", obj |-> EmptyObject]
  /\ rowDone = FALSE

ParseIdle ==
  /\ file = [size |-> 0, type |-> ""]
  /\ pc = "idle"
  /\ events = <<>>
  /\ book = NoWorkbook
  /\ rawData = <<>>
  /\ mappedRows = <<>>
  /\ sourceRows = <<>>
  /\ result = Pending

\* a function not called yet, and what it returned once called
NotCalled   == [done |-> FALSE, value |-> <<>>]
Returned(v) == [done |-> TRUE, value |-> v]

AppIdle ==
  /\ mounted = FALSE
  /\ data = <<>>
  /\ storage = NoItem
  /\ filters = DefaultFilters
  /\ chartConfig = DefaultChartConfig
  /\ error = NoError
  /\ loading = FALSE
  /\ activeTab = "table"
  /\ uploads = <<>>
  /\ last = "none"
  /\ decoded = {}

ValidateIdle ==
  /\ dataset = <<>>
  /\ diagnostics = NotCalled

NumberIdle ==
  /\ value = Undefined
  /\ number = NotCalled

FilterIdle ==
  /\ records = <<>>
  /\ criteria = DefaultFilters
  /\ filtered = NotCalled

StatIdle ==
  /\ xs = <<>>
  /\ ys = <<>>
  /\ stats = NotCalled
  /\ normalized = NotCalled
  /\ correlation = NotCalled
  /\ line = NotCalled

DrawIdle ==
  /\ chartInput = <<>>
  /\ bar = NotCalled
  /\ radar = NotCalled

ChartIdle == DrawIdle /\ StatIdle

ViewIdle == AppIdle /\ ValidateIdle /\ NumberIdle /\ FilterIdle /\ ChartIdle

(***************************************************************************)
(* sanitizeString applied to a text, and again to its result.              *)
(***************************************************************************)
InitPure ==
  /\ text \in Texts
  /\ once = <<>>
  /\ twice = <<>>
  /\ stage = 0
  /\ RowIdle
  /\ ParseIdle
  /\ ViewIdle

SanitizeOnce ==
  /\ stage = 0
  /\ once' = sanitizeString(Str(text))
  /\ stage' = 1
  /\ UNCHANGED <<text, twice, rowVars, parseVars, viewVars>>

SanitizeTwice ==
  /\ stage = 1
  /\ twice' = sanitizeString(Str(once))
  /\ stage' = 2
  /\ UNCHANGED <<text, once, rowVars, parseVars, viewVars>>

NextPure == SanitizeOnce \/ SanitizeTwice

SpecPure == InitPure /\ [][NextPure]_vars

(***************************************************************************)
(* validateAndSanitizeRow applied to one raw row.                          *)
(***************************************************************************)
InitRow ==
  /\ \E input \in RowInputs : headerRow = input[1] /\ row = input[2]
  /\ sanitized = [kind |-> "null", obj |-> EmptyObject]
  /\ rowDone = FALSE
  /\ PureIdle
  /\ ParseIdle
  /\ ViewIdle

MapRow ==
  /\ ~rowDone
  /\ sanitized' = validateAndSanitizeRow(row, headerRow)
  /\ rowDone' = TRUE
  /\ UNCHANGED <<headerRow, row, pureVars, parseVars, viewVars>>

NextRow == MapRow

SpecRow == InitRow /\ [][NextRow]_vars

(***************************************************************************)
(* parseExcelFile.                                                         *)
(***************************************************************************)
Init ==
  /\ file \in Files
  /\ pc = "idle"
  /\ events = <<>>
  /\ book = NoWorkbook
  /\ rawData = <<>>
  /\ mappedRows = <<>>
  /\ sourceRows = <<>>
  /\ result = Pending
  /\ PureIdle
  /\ RowIdle
  /\ ViewIdle

\* parseExcelFile(file) up to the return of the Promise: a file that fails
\* a check rejects before the FileReader is created
Call ==
  /\ pc = "idle"
  /\ IF FileCheck(file) # ""
     THEN /\ pc' = "settled"
          /\ result' = [settled |-> "rejected", data |-> <<>>, error |-> FileCheck(file)]
          /\ UNCHANGED events
     ELSE /\ pc' = "reading"
          /\ events' = Append(events, "readAsArrayBuffer")
          /\ UNCHANGED result
  /\ UNCHANGED <<file, book, rawData, mappedRows, sourceRows, pureVars, rowVars, viewVars>>

\* the end of reader.onload for the selected sheet: resolve(filamentData),
\* or reject from the catch block
Settle(sheet, out) ==
  /\ pc' = "settled"
  /\ events' = events \o <<"XLSX.read", "sheet_to_json">>
  /\ rawData' = sheet
  /\ mappedRows' = out.mapped
  /\ sourceRows' = out.source
  /\ result' = IF out.error = ""
               THEN [settled |-> "resolved", data |-> out.data, error |-> ""]
               ELSE [settled |-> "rejected", data |-> <<>>,
                     error |-> "Failed to parse Excel file"]

\* reader.onload on bytes that XLSX.read decodes into the workbook
OnloadWorkbook(workbook) ==
  /\ pc = "reading"
  /\ book' = workbook
  /\ Settle(workbook.Sheets[selectSheetName(workbook)],
            processSheet(workbook.Sheets[selectSheetName(workbook)]))
  /\ UNCHANGED <<file, pureVars, rowVars, viewVars>>

\* reader.onload on bytes that XLSX.read cannot decode: it throws
OnloadCorrupt ==
  /\ pc = "reading"
  /\ pc' = "settled"
  /\ events' = Append(events, "XLSX.read")
  /\ result' = [settled |-> "rejected", data |-> <<>>, error |-> "Failed to parse Excel file"]
  /\ UNCHANGED <<file, book, rawData, mappedRows, sourceRows, pureVars, rowVars, viewVars>>

\* reader.onload
Onload == (\E workbook \in Workbooks : OnloadWorkbook(workbook)) \/ OnloadCorrupt

\* reader.onerror
Onerror ==
  /\ pc = "reading"
  /\ pc' = "settled"
  /\ result' = [settled |-> "rejected", data |-> <<>>, error |-> "Failed to read file"]
  /\ UNCHANGED <<file, events, book, rawData, mappedRows, sourceRows, pureVars, rowVars, viewVars>>

Next == Call \/ Onload \/ Onerror

Spec == Init /\ [][Next]_vars

\* a load or an error event of the FileReader of a started read
Fires == pc = "reading" /\ pc' = "settled"

\* the call runs to the return of its Promise, and the FileReader of a
\* started read fires load or error
SpecLive == Spec /\ WF_vars(Call) /\ WF_pc(Fires)

(***************************************************************************)
(* App: the mount effect, handleFileUpload and the FileReader events of    *)
(* its calls of parseExcelFile, handleUnloadData and the controls of the   *)
(* filter panel and of the charts.  last is how the call of                *)
(* handleFileUpload that the latest step finished has ended: "rejected",   *)
(* "invalid", "stored" or "quota", and "none" after any other step.        *)
(***************************************************************************)
InitApp ==
  /\ mounted = FALSE
  /\ data = <<>>
  /\ storage \in StoredItems
  /\ filters = DefaultFilters
  /\ chartConfig = DefaultChartConfig
  /\ error = NoError
  /\ loading = FALSE
  /\ activeTab = "table"
  /\ uploads = <<>>
  /\ last = "none"
  /\ decoded = ParsedWorkbooks
  /\ PureIdle /\ RowIdle /\ ParseIdle
  /\ ValidateIdle /\ NumberIdle /\ FilterIdle /\ ChartIdle

\* the effect that loads the persisted data, and the effect of the axes
Mount ==
  /\ ~mounted
  /\ mounted' = TRUE
  /\ data' = loadSaved(storage, data)
  /\ chartConfig' = defaultAxes(loadSaved(storage, data), chartConfig)
  /\ last' = "none"
  /\ UNCHANGED <<storage, filters, error, loading, activeTab, uploads, decoded>>
  /\ UNCHANGED <<coreVars, validateVars, numberVars, filterVars, chartVars>>

\* handleFileUpload from the catch block on: parseExcelFile has failed
Rejected(message) ==
  /\ error' = ErrorOf(message)
  /\ loading' = FALSE
  /\ last' = "rejected"
  /\ UNCHANGED <<data, storage, filters, chartConfig>>

\* mutant: a dataset with diagnostics replaces the current one all the same
Delivered_keepsInvalid(parsedData, validationErrors) ==
  /\ data' = parsedData
  /\ error' = IF validationErrors # <<>> THEN ErrorOf("Data validation failed") ELSE error
  /\ loading' = FALSE
  /\ last' = IF validationErrors # <<>> THEN "invalid" ELSE "stored"
  /\ storage' = JSONstringify(parsedData)
  /\ filters' = DefaultFilters
  /\ chartConfig' = defaultAxes(parsedData, DefaultChartConfig)

\* handleFileUpload after the await, for the dataset that parseExcelFile
\* resolved with and its diagnostics; localStorage.setItem throws when the
\* quota is exceeded
Delivered(parsedData, validationErrors) ==
  IF validationErrors # <<>>
  THEN /\ error' = ErrorOf("Data validation failed")
       /\ loading' = FALSE
       /\ last' = "invalid"
       /\ UNCHANGED <<data, storage, filters, chartConfig>>
  ELSE /\ data' = parsedData
       /\ loading' = FALSE
       /\ \/ /\ storage' = JSONstringify(parsedData)
             /\ filters' = DefaultFilters
             /\ chartConfig' = defaultAxes(parsedData, DefaultChartConfig)
             /\ last' = "stored"
             /\ UNCHANGED error
          \/ /\ error' = ErrorOf("QuotaExceededError")
             /\ chartConfig' = defaultAxes(parsedData, chartConfig)
             /\ last' = "quota"
             /\ UNCHANGED <<storage, filters>>

\* handleFileUpload after the await, for what reader.onload made of the sheet
AfterParse(out) ==
  IF out.error # ""
  THEN Rejected("Failed to parse Excel file")
  ELSE Delivered(out.data, validateExcelData(out.data))

\* handleFileUpload(file) up to the await; a file that fails a check of
\* parseExcelFile rejects at once and the call ends in the same task
HandleFileUpload(f) ==
  /\ mounted
  /\ data = <<>>
  /\ Len(uploads) < MaxUploads
  /\ IF FileCheck(f) # ""
     THEN /\ error' = ErrorOf(FileCheck(f))
          /\ loading' = FALSE
          /\ last' = "rejected"
          /\ UNCHANGED uploads
     ELSE /\ error' = NoError
          /\ loading' = TRUE
          /\ last' = "none"
          /\ uploads' = Append(uploads, f)
  /\ UNCHANGED <<mounted, data, storage, filters, chartConfig, activeTab, decoded>>
  /\ UNCHANGED <<coreVars, validateVars, numberVars, filterVars, chartVars>>

\* reader.onload of the call of position i, on bytes that XLSX.read decodes
\* into a workbook or on which it throws, and the rest of handleFileUpload
UploadOnload(i) ==
  /\ i \in 1..Len(uploads)
  /\ uploads' = RemoveAt(uploads, i)
  /\ \/ \E out \in decoded : AfterParse(out)
     \/ Rejected("Failed to parse Excel file")
  /\ UNCHANGED <<mounted, activeTab, decoded>>
  /\ UNCHANGED <<coreVars, validateVars, numberVars, filterVars, chartVars>>

\* reader.onerror of the call of position i, and the rest of handleFileUpload
UploadOnerror(i) ==
  /\ i \in 1..Len(uploads)
  /\ uploads' = RemoveAt(uploads, i)
  /\ Rejected("Failed to read file")
  /\ UNCHANGED <<mounted, activeTab, decoded>>
  /\ UNCHANGED <<coreVars, validateVars, numberVars, filterVars, chartVars>>

\* handleUnloadData, confirmed or not in window.confirm
HandleUnloadData(confirmed) ==
  /\ mounted
  /\ data # <<>>
  /\ last' = "none"
  /\ IF confirmed
     THEN /\ data' = <<>>
          /\ storage' = NoItem
          /\ filters' = DefaultFilters
          /\ chartConfig' = DefaultChartConfig
          /\ activeTab' = "table"
          /\ error' = NoError
     ELSE UNCHANGED <<data, storage, filters, chartConfig, activeTab, error>>
  /\ UNCHANGED <<mounted, loading, uploads, decoded>>
  /\ UNCHANGED <<coreVars, validateVars, numberVars, filterVars, chartVars>>

\* FilterPanel: handleMultiSelectChange on a check box of the brands or of
\* the filament types, and clearAllFilters
ChangeFilters ==
  /\ mounted
  /\ data # <<>>
  /\ \/ \E v \in uniqueValues(data, KEY_Brand) :
          filters' = [filters EXCEPT !.brands = toggle(filters.brands, v)]
     \/ \E v \in uniqueValues(data, KEY_Filament_type) :
          filters' = [filters EXCEPT !.filamentTypes = toggle(filters.filamentTypes, v)]
     \/ filters' = DefaultFilters
  /\ last' = "none"
  /\ UNCHANGED <<mounted, data, storage, chartConfig, error, loading, activeTab, uploads,
                 decoded>>
  /\ UNCHANGED <<coreVars, validateVars, numberVars, filterVars, chartVars>>

\* the tab buttons, and handleChartTypeChange of the chart controls, shown
\* on the charts tab
ChangeView ==
  /\ mounted
  /\ data # <<>>
  /\ \/ /\ \E tab \in {"table", "charts"} : activeTab' = tab
        /\ UNCHANGED chartConfig
     \/ /\ activeTab = "charts"
        /\ \E type \in {"scatter", "bar", "radar"} :
             chartConfig' = [chartConfig EXCEPT !.type = type]
        /\ UNCHANGED activeTab
  /\ last' = "none"
  /\ UNCHANGED <<mounted, data, storage, filters, error, loading, uploads, decoded>>
  /\ UNCHANGED <<coreVars, validateVars, numberVars, filterVars, chartVars>>

NextApp ==
  \/ Mount
  \/ \E f \in Files : HandleFileUpload(f)
  \/ \E i \in 1..MaxUploads : UploadOnload(i)
  \/ \E i \in 1..MaxUploads : UploadOnerror(i)
  \/ \E confirmed \in BOOLEAN : HandleUnloadData(confirmed)
  \/ ChangeFilters
  \/ ChangeView

SpecApp == InitApp /\ [][NextApp]_vars
(***************************************************************************)
(* validateExcelData applied to a dataset.                                 *)
(***************************************************************************)
InitValidate ==
  /\ dataset \in ValidateDatasets
  /\ diagnostics = NotCalled
  /\ PureIdle /\ RowIdle /\ ParseIdle
  /\ AppIdle /\ NumberIdle /\ FilterIdle /\ ChartIdle

Validate ==
  /\ ~diagnostics.done
  /\ diagnostics' = Returned(validateExcelData(dataset))
  /\ UNCHANGED <<dataset, coreVars, appVars, numberVars, filterVars, chartVars>>

NextValidate == Validate

SpecValidate == InitValidate /\ [][NextValidate]_vars
(***************************************************************************)
(* sanitizeNumber applied to a value, and validateAndSanitizeRow applied   *)
(* to a row that holds the value in a measurement column.                  *)
(***************************************************************************)
InitNumber ==
  /\ value \in NumberInputs
  /\ number = NotCalled
  /\ headerRow = <<Str(KEY_Brand), Str(KEY_Tensile_kg)>>
  /\ row = <<Str(<<"A","c","m","e">>), value>>
  /\ sanitized = [kind |-> "null", obj |-> EmptyObject]
  /\ rowDone = FALSE
  /\ PureIdle /\ ParseIdle
  /\ AppIdle /\ ValidateIdle /\ FilterIdle /\ ChartIdle

SanitizeNumber ==
  /\ ~number.done
  /\ number' = Returned(sanitizeNumber(value))
  /\ UNCHANGED <<value, coreVars, appVars, validateVars, filterVars, chartVars>>

NextNumber == SanitizeNumber \/ MapRow

SpecNumber == InitNumber /\ [][NextNumber]_vars
(***************************************************************************)
(* filteredData applied to a dataset and a state of the filters.  The      *)
(* dataset is one of the generated ones, or the one that parseExcelFile    *)
(* resolves with for the sheet rawData.                                    *)
(***************************************************************************)
InitFilter ==
  /\ \/ records \in FilterDatasets /\ rawData = <<>>
     \/ \E sheet \in FilterSheets : rawData = sheet /\ records = processSheet(sheet).data
  /\ criteria \in FilterStates
  /\ filtered = NotCalled
  /\ file = [size |-> 0, type |-> ""]
  /\ pc = "idle"
  /\ events = <<>>
  /\ book = NoWorkbook
  /\ mappedRows = <<>>
  /\ sourceRows = <<>>
  /\ result = Pending
  /\ PureIdle /\ RowIdle
  /\ AppIdle /\ ValidateIdle /\ NumberIdle /\ ChartIdle

ApplyFilters ==
  /\ ~filtered.done
  /\ filtered' = Returned(filteredData(records, criteria))
  /\ UNCHANGED <<records, criteria, coreVars, appVars, validateVars, numberVars, chartVars>>

NextFilter == ApplyFilters

SpecFilter == InitFilter /\ [][NextFilter]_vars
(***************************************************************************)
(* The sliders of FilterPanel moved any number of times on a dataset, and  *)
(* filteredData applied to the filters they give.                          *)
(***************************************************************************)
InitPanel ==
  /\ records \in FilterDatasets
  /\ criteria = DefaultFilters
  /\ filtered = NotCalled
  /\ PureIdle /\ RowIdle /\ ParseIdle
  /\ AppIdle /\ ValidateIdle /\ NumberIdle /\ ChartIdle

\* onChange of the Min or the Max input of a column: the filters change and
\* filteredData is computed anew
HandleNumericFilterChange ==
  /\ \E column \in Range(sliderColumns(records)), type \in {"min", "max"}, v \in SliderValues :
       criteria' = handleNumericFilterChange(criteria, records, column, type, v)
  /\ filtered' = NotCalled
  /\ UNCHANGED <<records, coreVars, appVars, validateVars, numberVars, chartVars>>

NextPanel == HandleNumericFilterChange \/ ApplyFilters

SpecPanel == InitPanel /\ [][NextPanel]_vars
(***************************************************************************)
(* barData and radarData applied to a dataset.                             *)
(***************************************************************************)
InitCharts ==
  /\ chartInput \in ChartDatasets
  /\ bar = NotCalled
  /\ radar = NotCalled
  /\ StatIdle
  /\ PureIdle /\ RowIdle /\ ParseIdle
  /\ AppIdle /\ ValidateIdle /\ NumberIdle /\ FilterIdle

BarData ==
  /\ ~bar.done
  /\ bar' = Returned(barData(chartInput))
  /\ UNCHANGED <<chartInput, radar, statVars, coreVars, appVars, validateVars, numberVars, filterVars>>

RadarData ==
  /\ ~radar.done
  /\ radar' = Returned(radarData(chartInput))
  /\ UNCHANGED <<chartInput, bar, statVars, coreVars, appVars, validateVars, numberVars, filterVars>>

NextCharts == BarData \/ RadarData

SpecCharts == InitCharts /\ [][NextCharts]_vars
(***************************************************************************)
(* The functions of statistics.ts, one call on the arrays xs and ys.       *)
(***************************************************************************)
InitStats ==
  /\ \E input \in StatInputs : xs = input[1] /\ ys = input[2]
  /\ stats = NotCalled
  /\ normalized = NotCalled
  /\ correlation = NotCalled
  /\ line = NotCalled
  /\ DrawIdle
  /\ PureIdle /\ RowIdle /\ ParseIdle
  /\ AppIdle /\ ValidateIdle /\ NumberIdle /\ FilterIdle

NoneCalled == ~stats.done /\ ~normalized.done /\ ~correlation.done /\ ~line.done

\* calculateStatistics(xs): the sort is that of the copy [...values]
CalculateStatistics ==
  /\ NoneCalled
  /\ stats' = Returned([values |-> xs, result |-> calculateStatistics(xs)])
  /\ xs' = valuesAfterStatistics(xs)
  /\ UNCHANGED <<ys, normalized, correlation, line, chartInput, bar, radar,
                 coreVars, appVars, validateVars, numberVars, filterVars>>

\* normalizeMinMax(xs)
NormalizeMinMax ==
  /\ NoneCalled
  /\ normalized' = Returned(normalizeMinMax(xs))
  /\ UNCHANGED <<xs, ys, stats, correlation, line, chartInput, bar, radar,
                 coreVars, appVars, validateVars, numberVars, filterVars>>

\* calculatePearsonCorrelation(x, y) on the two arrays in either order, and
\* on an array and itself
CalculatePearsonCorrelation ==
  /\ NoneCalled
  /\ \E args \in {<<xs, ys>>, <<ys, xs>>, <<xs, xs>>} :
       correlation' = Returned([x |-> args[1], y |-> args[2],
                                r |-> calculatePearsonCorrelation(args[1], args[2])])
  /\ UNCHANGED <<xs, ys, stats, normalized, line, chartInput, bar, radar,
                 coreVars, appVars, validateVars, numberVars, filterVars>>

\* calculateLinearRegression(xs, ys)
CalculateLinearRegression ==
  /\ NoneCalled
  /\ line' = Returned(calculateLinearRegression(xs, ys))
  /\ UNCHANGED <<xs, ys, stats, normalized, correlation, chartInput, bar, radar,
                 coreVars, appVars, validateVars, numberVars, filterVars>>

NextStats ==
  \/ CalculateStatistics
  \/ NormalizeMinMax
  \/ CalculatePearsonCorrelation
  \/ CalculateLinearRegression

SpecStats == InitStats /\ [][NextStats]_vars
(***************************************************************************)
(* Properties.                                                             *)
(***************************************************************************)
\* the values of a record that are strings
StringValues(obj) == {obj.val[key].v : key \in {k \in Range(obj.keys) : obj.val[k].t = "string"}}

\* the text holds '<', '>' or "javascript:" in any letter case
HasMarkup(t) ==
  \/ \E i \in 1..Len(t) : t[i] \in {"<", ">"}
  \/ includes(toLowerCase(t), <<"j","a","v","a","s","c","r","i","p","t",":">>)

\* C1: no string value stored in a record by validateAndSanitizeRow, the
\* values of link and url columns included, contains '<', '>' or
\* "javascript:" in any letter case.
C1_NoMarkupInStoredStrings ==
  (rowDone /\ sanitized.kind = "record")
    => \A t \in StringValues(sanitized.obj) : ~HasMarkup(t)

\* C2: every string value of a record produced by validateAndSanitizeRow has
\* at most 1000 characters; a longer text is stored as null.
C2_StoredStringsAtMost1000 ==
  (rowDone /\ sanitized.kind = "record")
    => \A t \in StringValues(sanitized.obj) : Len(t) <= 1000

\* the keys of the header cells that are not empty after sanitization
RetainedKeys(headers) ==
  {sanitizeText(headers[c].v) : c \in {i \in 1..Len(headers) : headers[i].t = "string"}}
    \ {<<>>}

\* the last column of the header row whose sanitized text is the key
LastColumnOf(headers, key) ==
  Max({c \in 1..Len(headers) : headers[c].t = "string" /\ sanitizeText(headers[c].v) = key})

\* the raw cell is undefined, null, the empty string or the text "undefined"
IsBlankCell(cell) ==
  cell \in {Undefined, Null, Str(<<>>), Str(<<"u","n","d","e","f","i","n","e","d">>)}

\* C3: all records of the dataset returned by one parseExcelFile call have
\* the same key set, the headers of row index 1 that are not empty after
\* sanitization; a key whose raw cell is undefined, null, empty or the text
\* "undefined" is present with the value null, never omitted.
C3_StableKeySet ==
  (result.settled = "resolved")
    => \A k \in 1..Len(result.data) :
         /\ Range(result.data[k].keys) = RetainedKeys(rawData[2])
         /\ \A key \in RetainedKeys(rawData[2]) :
              IsBlankCell(Cell(rawData[sourceRows[k]], LastColumnOf(rawData[2], key)))
                => Get(result.data[k], key) = Null

\* C3 witness: a dataset of two records, one holding null under a key of a
\* blank cell where the other holds a text, from a header row with cells
\* that are not retained
C3_Witness ==
  /\ result.settled = "resolved"
  /\ Len(result.data) >= 2
  /\ Cardinality(RetainedKeys(rawData[2])) < Len(rawData[2])
  /\ \E key \in RetainedKeys(rawData[2]) :
       /\ Get(result.data[1], key).t = "string"
       /\ Get(result.data[2], key) = Null
       /\ IsBlankCell(Cell(rawData[sourceRows[2]], LastColumnOf(rawData[2], key)))

\* the record built from the row, before it is accepted or dropped
MappedRecord == MapColumns(row, headerRow, 1, [obj |-> EmptyObject, hasValidData |-> FALSE]).obj

\* the number of keys of the record whose value is not null
Populated(obj) == Cardinality({key \in Range(obj.keys) : obj.val[key] # Null})

\* C4: validateAndSanitizeRow accepts a mapped record if and only if one of
\* Brand, Filament type, Material, Type is non-null in it or more than 5 of
\* its fields are populated (non-null).
C4_AcceptedIffIdentified ==
  (rowDone /\ sanitized.kind # "throw")
    => (sanitized.kind = "record"
          <=> \/ \E key \in {<<"B","r","a","n","d">>, <<"F","i","l","a","m","e","n","t"," ","t","y","p","e">>, <<"M","a","t","e","r","i","a","l">>, <<"T","y","p","e">>} :
                   HasKey(MappedRecord, key) /\ Get(MappedRecord, key) # Null
              \/ Populated(MappedRecord) > 5)

\* C5: sanitizeString is idempotent: sanitizing a sanitized text returns it
\* unchanged.
C5_SanitizeIdempotent ==
  (stage = 2) => (twice = once)

\* the row is one that the claim says is discarded
IsDiscardable(r) ==
  \/ Len(r) = 0
  \/ \E marker \in {<<"n","e","w"," ","r","o","w","s">>, <<"o","r","a","n","g","e"," ","b","g">>, <<"m","e","t","a","d","a","t","a">>, <<"h","e","a","d","e","r">>, <<"n","o","t","e",":">>, <<"c","o","m","m","e","n","t">>} :
       includes(toLowerCase(join(r)), marker)
  \/ Cardinality({i \in 1..Len(r) : r[i] \notin {Undefined, Null, Str(<<>>)}}) < 2
  \/ Cell(r, 2) \in {Undefined, Null}
  \/ (Cell(r, 2).t = "string"
        /\ (trim(Cell(r, 2).v) = <<>> \/ toLowerCase(Cell(r, 2).v) = <<"u","n","d","e","f","i","n","e","d">>))

\* C6: a data row (index 2 onward) with no cell, with a marker text, with
\* fewer than 2 non-empty cells or with an empty, blank or "undefined" cell
\* at index 1 is never given to validateAndSanitizeRow and is the source of
\* no record of the dataset.
C6_DiscardedRowsNeverMapped ==
  \A i \in 3..Len(rawData) :
    IsDiscardable(rawData[i])
      => (i \notin Range(mappedRows) /\ i \notin Range(sourceRows))

\* C6 witness: a resolved sheet in which a row with "UNDEFINED" at index 1
\* was discarded although its other cells are filled, and another row was
\* mapped
C6_Witness ==
  /\ result.settled = "resolved"
  /\ Len(result.data) >= 1
  /\ \E i \in 3..Len(rawData) :
       /\ Cell(rawData[i], 2) = Str(<<"U","N","D","E","F","I","N","E","D">>)
       /\ Cell(rawData[i], 1) = Num(1)
       /\ Cell(rawData[i], 3) = Str(<<"P","L","A">>)
       /\ i \notin Range(mappedRows)

\* the text parses as an absolute http or https URL on a trusted host
IsTrustedUrl(t) ==
  LET u == ParseUrl(t)
  IN /\ ~u.failure
     /\ u.protocol \in {<<"h","t","t","p",":">>, <<"h","t","t","p","s",":">>}
     /\ \E d \in {<<"y","o","u","t","u","b","e",".","c","o","m">>, <<"y","o","u","t","u",".","b","e">>, <<"w","w","w",".","y","o","u","t","u","b","e",".","c","o","m">>} :
          u.hostname = d \/ endsWith(u.hostname, <<".">> \o d)

\* the row under test has a link column
IsLinkInput == rowDone /\ headerRow = HDR_Brand_Link /\ sanitized.kind = "record"

\* the value stored under the link column
StoredLink == Get(sanitized.obj, <<"Y","o","u","T","u","b","e"," ","L","i","n","k">>)

\* C7 as stated: the link column stores a text only when the text of the
\* raw cell itself parses as an http or https URL on a trusted host.
C7_StoredOnlyIfInputTrusted ==
  IsLinkInput => (StoredLink # Null => IsTrustedUrl(String(row[2])))

\* C7 as amended: the link column stores a text only when the sanitized
\* text of the raw cell parses as an http or https URL on a trusted host; in
\* every other case it stores null, and nothing is raised.
C7_StoredOnlyIfSanitizedTrusted ==
  (rowDone /\ headerRow = HDR_Brand_Link)
    => /\ sanitized.kind = "record"
       /\ (StoredLink # Null <=> IsTrustedUrl(sanitizeText(String(row[2]))))
       /\ (StoredLink # Null => StoredLink.t = "string" /\ StoredLink.v # <<>>)

\* C7 witness: a URL on a subdomain of a trusted host was accepted
C7_Witness ==
  /\ IsLinkInput
  /\ StoredLink # Null
  /\ ParseUrl(StoredLink.v).hostname = <<"e","v","i","l",".","y","o","u","t","u",".","b","e">>

\* C8 as stated: an accepted URL is stored character for character as the
\* text of the raw cell.
C8_AcceptedUrlUnchanged ==
  IsLinkInput => (StoredLink # Null => StoredLink.v = String(row[2]))

\* C8 as amended: an accepted URL is stored as the sanitized text of the raw
\* cell, which is the text of the cell when sanitizing changes nothing.
C8_AcceptedUrlIsSanitized ==
  IsLinkInput
    => (StoredLink # Null
          => /\ StoredLink.v = sanitizeText(String(row[2]))
             /\ (~HasMarkup(String(row[2])) /\ trim(String(row[2])) = String(row[2])
                   => StoredLink.v = String(row[2])))

\* C8 witness: an accepted URL whose stored text differs from the raw cell
C8_Witness ==
  /\ IsLinkInput
  /\ StoredLink # Null
  /\ StoredLink.v # String(row[2])
  /\ row[2] = Str(<<"<","h","t","t","p","s",":","/","/","y","o","u","t","u",".","b","e">>)

\* C9: parseExcelFile fails whenever the file is larger than 50 MB or its
\* type is not one of the two spreadsheet types, and then no read, decoding
\* or row processing has taken place.
C9_BadFileRejectedBeforeRead ==
  (pc # "idle"
     /\ (\/ file.size > 52428800
         \/ file.type \notin {"application/vnd.openxmlformats-officedocument.spreadsheetml.sheet",
                              "application/vnd.ms-excel"}))
    => /\ pc = "settled"
       /\ result.settled = "rejected"
       /\ events = <<>>
       /\ mappedRows = <<>>

\* C9 witness: a file of an allowed type, one byte over the limit, was rejected
C9_Witness ==
  /\ pc = "settled"
  /\ file.size = 52428801
  /\ file.type = "application/vnd.ms-excel"
  /\ result.settled = "rejected"

\* C10: parseExcelFile rejects and delivers no dataset when the selected
\* sheet has fewer than 3 rows or an empty header row; it resolves only for
\* a sheet of at least 3 rows with a header row that is not empty.
C10_ShortSheetRejected ==
  /\ (result.settled = "resolved") => (Len(rawData) >= 3 /\ Len(rawData[2]) > 0)
  /\ (pc = "settled" /\ (Len(rawData) < 3 \/ Len(rawData[2]) = 0))
       => (result.settled = "rejected" /\ result.data = <<>>)

\* C10 witness: a decoded sheet of a title row and a header row only was
\* rejected
C10_Witness ==
  /\ pc = "settled"
  /\ Len(events) = 3
  /\ Len(rawData) = 2
  /\ Len(rawData[2]) > 0
  /\ result.settled = "rejected"

\* what one step of an attempt may do to the Promise and to the calls made
SettleStep ==
  /\ (result.settled # "pending") => (result' = result /\ events' = events)
  /\ (result'.settled = "resolved") =>
       /\ events' = <<"readAsArrayBuffer", "XLSX.read", "sheet_to_json">>
       /\ mappedRows' = keptRows(rawData')
       /\ \A k \in 1..Len(mappedRows') :
            validateAndSanitizeRow(rawData'[mappedRows'[k]], rawData'[2]).kind # "throw"
       /\ Len(result'.data) = Len(sourceRows')
       /\ \A k \in 1..Len(sourceRows') :
            result'.data[k] = validateAndSanitizeRow(rawData'[sourceRows'[k]], rawData'[2]).obj
  /\ (result'.settled = "rejected") => (result'.data = <<>> /\ result'.error # "")
  /\ \A i, j \in 1..Len(events') : (events'[i] = events'[j]) => (i = j)

\* C11: each parseExcelFile attempt settles, exactly once and for good: it
\* resolves with the records of all the rows kept, after the decode, the
\* row filter and the mapping of every kept row without a throw, or it
\* rejects with an error and no dataset; once settled nothing changes and
\* no call of the attempt is made twice.
C11_SettlesOnceAndForGood ==
  /\ <>(result.settled # "pending")
  /\ [][SettleStep]_vars

\* C11 witness: a sheet that passes the sheet checks was decoded and the
\* mapping of a row threw: the attempt is rejected
C11_Witness ==
  /\ pc = "settled"
  /\ result.settled = "rejected"
  /\ Len(events) = 3
  /\ sheetCheck(rawData) = ""
  /\ mappedRows # <<>>

\* C12: a step that ends a call of handleFileUpload on a failure of
\* parseExcelFile or on a non-empty list of diagnostics leaves the dataset,
\* its copy in localStorage, the filters and the chart configuration as they
\* were and sets an error message, and a step that ends a call with another
\* dataset has put a dataset without any diagnostic
UploadStep ==
  /\ (last' \in {"rejected", "invalid"}) =>
       /\ data' = data
       /\ storage' = storage
       /\ filters' = filters
       /\ chartConfig' = chartConfig
       /\ error'.set
       /\ error'.message # ""
  /\ (Len(uploads') < Len(uploads) /\ data' # data) =>
       /\ last' \in {"stored", "quota"}
       /\ validateExcelData(data') = <<>>

C12_RejectedAsAWhole == [][UploadStep]_vars

\* a dataset with diagnostics has been rejected while another dataset was
\* shown, filtered and stored
C12_Witness ==
  /\ last = "invalid"
  /\ data # <<>>
  /\ filters # DefaultFilters
  /\ storage = JSONstringify(data)
  /\ chartConfig # DefaultChartConfig
  /\ error.set

\* C13: validateExcelData returns exactly one diagnostic, the one of the
\* missing data, for an empty dataset, and exactly one, the one of the row
\* count, for a dataset of more than 10 000 records, whatever the columns
\* and the values of its records
C13_ShortCircuits ==
  diagnostics.done =>
    /\ (Len(dataset) = 0) =>
         diagnostics.value = <<Diagnostic("No data found in the Excel file", <<>>)>>
    /\ (Len(dataset) > 10000) =>
         /\ Len(diagnostics.value) = 1
         /\ diagnostics.value[1].message = "Too many rows"
         /\ diagnostics.value[1].args = <<Len(dataset), 10000>>
    /\ (Len(dataset) \in 1..10000) =>
         \A k \in 1..Len(diagnostics.value) :
            diagnostics.value[k].message \notin {"No data found in the Excel file", "Too many rows"}

\* a dataset of 10 001 records without identifying or measurement column and
\* with issues in every record has been validated
C13_Witness ==
  /\ diagnostics.done
  /\ Len(dataset) = 10001
  /\ dataset[1] = Unreasonable
  /\ columnDiagnostics(dataset[1]) # <<>>
  /\ dataIssues(dataset) # <<>>

\* the diagnostics returned hold one of the given message
Reports(message) ==
  \E k \in 1..Len(diagnostics.value) : diagnostics.value[k].message = message

\* C14: for a dataset of 1 to 10 000 records, validateExcelData returns the
\* diagnostic of the missing identifying columns whenever the first record
\* has none of the keys Brand, Filament type, Material, Type
C14_MissingIdentifyingReported ==
  (/\ diagnostics.done
   /\ Len(dataset) \in 1..10000
   /\ \A column \in {<<"B","r","a","n","d">>, <<"F","i","l","a","m","e","n","t"," ","t","y","p","e">>, <<"M","a","t","e","r","i","a","l">>, <<"T","y","p","e">>} : ~HasKey(dataset[1], column))
  => Reports("Missing identifying columns")

\* the dataset has a column named as a measurement, in any letter case, in
\* which some record holds a number
HasNumericMeasurementColumn(d) ==
  \E i \in 1..Len(d) : \E key \in Range(ObjectKeys(d[i])) :
     /\ typeof(Get(d[i], key)) = "number"
     /\ \E keyword \in {<<"t","e","n","s","i","l","e">>, <<"l","a","y","e","r">>, <<"i","z","o","d">>} : includes(toLowerCase(key), keyword)

\* C15: for a dataset of 1 to 10 000 records, validateExcelData returns the
\* diagnostic "No numeric measurement columns found" exactly when no column
\* whose key contains tensile, layer or izod, in any letter case, holds a
\* number in some record, the first or another
C15_NoMeasurementReportedExactly ==
  (diagnostics.done /\ Len(dataset) \in 1..10000)
  => (Reports("No numeric measurement columns found") <=> ~HasNumericMeasurementColumn(dataset))

\* the value is a number that is not finite or of magnitude above 1e10, or a
\* string of more than 500 characters
IsIssueValue(v) ==
  \/ v.t = "number" /\ (v.v.k # "fin" \/ MagnitudeAbove(v.v))
  \/ v.t = "string" /\ Len(v.v) > 500

\* the places (record, key) of the issues among the first 100 records
SampledIssues(d) ==
  UNION {{<<i, key>> : key \in {k \in Range(ObjectKeys(d[i])) : IsIssueValue(Get(d[i], k))}} :
           i \in 1..Min({Len(d), 100})}

\* the data-quality diagnostics among those returned
QualityReported ==
  SelectSeq(diagnostics.value,
            LAMBDA e : e.message \in {"Data quality issues", "Multiple data quality issues detected"})

Unparsable(s) ==
  LET t == SelectSeq(s, LAMBDA c : c \in {"0","1","2","3","4","5","6","7","8","9",".","-"})
      u == IF t # <<>> /\ t[1] = "-" THEN Tail(t) ELSE t
  IN ~(/\ u # <<>>
       /\ \/ u[1] \notin {".", "-"}
          \/ u[1] = "." /\ Len(u) >= 2 /\ u[2] \notin {".", "-"})

\* C17: sanitizeNumber returns a finite number for every input, and 0 for a
\* number that is not finite, a string that cannot be parsed and a value of
\* another type; every number that validateAndSanitizeRow stores in a record
\* is finite
C17_NumbersFinite ==
  /\ number.done =>
       /\ number.value.t = "number"
       /\ number.value.v.k = "fin"
       /\ (\/ value.t \notin {"number", "string"}
           \/ value.t = "number" /\ value.v.k # "fin"
           \/ value.t = "string" /\ Unparsable(value.v))
          => (number.value.v.m = 0)
  /\ (rowDone /\ sanitized.kind = "record") =>
       \A key \in Range(ObjectKeys(sanitized.obj)) :
          (Get(sanitized.obj, key).t = "number") => (Get(sanitized.obj, key).v.k = "fin")

\* a string of 310 digits, which parseFloat reads as Infinity, has been given
\* to sanitizeNumber and stored in a record as 0
C17_Witness ==
  /\ number.done
  /\ rowDone
  /\ value.t = "string" /\ Len(value.v) = 310 /\ value.v[1] = "9"
  /\ number.value = Num(0)
  /\ sanitized.kind = "record"
  /\ Get(sanitized.obj, KEY_Tensile_kg) = Num(0)

\* the record satisfies every active clause of the filters
Satisfies(item, f) ==
  /\ (f.brands = <<>>) \/ (Get(item, <<"B","r","a","n","d">>) \in Range(f.brands))
  /\ (f.filamentTypes = <<>>) \/ (Get(item, <<"F","i","l","a","m","e","n","t"," ","t","y","p","e">>) \in Range(f.filamentTypes))
  /\ (f.baseMaterials = <<>>)
     \/ ((IF Get(item, <<"B","a","s","e">>).t = "string" THEN Get(item, <<"B","a","s","e">>) ELSE Str(<<>>))
          \in Range(f.baseMaterials))
  /\ (f.fiberBlends = <<>>)
     \/ ((IF Get(item, <<"F","i","b","e","r","s">>).t = "string" THEN Get(item, <<"F","i","b","e","r","s">>) ELSE Str(<<>>))
          \in Range(f.fiberBlends))
  /\ (f.searchText = <<>>)
     \/ \E key \in {<<"B","r","a","n","d">>, <<"F","i","l","a","m","e","n","t"," ","t","y","p","e">>, <<"B","a","s","e">>, <<"F","i","b","e","r","s">>} :
           /\ Get(item, key).t = "string"
           /\ includes(toLowerCase(Get(item, key).v), toLowerCase(f.searchText))
  /\ \A column \in Range(ObjectKeys(f.numericFilters)) :
        LET v == Get(item, column)
            r == f.numericFilters.val[column]
        IN (v.t = "number") =>
             /\ (r.min.t = "number") => ~numLess(v.v, r.min.v)
             /\ (r.max.t = "number") => ~numLess(r.max.v, v.v)

PresentValues(items, column) ==
  SelectSeq([i \in 1..Len(items) |-> Get(items[i], column)], LAMBDA v : v.t = "number")

\* C19: in what barData returns, for each group of a base material and each
\* of the first five numeric columns, the value is the mean, rounded to 2
\* decimals, of the values of the column that are present in the records of
\* the group: a record whose value is null or missing counts neither in the
\* sum nor in the number of values
C19_MeanOverPresentValues ==
  bar.done =>
    \A g \in 1..Len(bar.value) :
      \A c \in 1..Min({5, Len(numericColumns(chartInput))}) :
        LET column == numericColumns(chartInput)[c]
            items  == SelectSeq(chartInput,
                                LAMBDA d : IsGrouped(d) /\ String(baseMaterial(d)) = bar.value[g].material)
            values == PresentValues(items, column)
        IN (values # <<>>) =>
             /\ HasKey(bar.value[g].means, column)
             /\ Get(bar.value[g].means, column) = toFixedOf(numSum(values), Len(values), 2)

\* C20: in what radarData returns, for each of the first six numeric columns
\* and each top record with a number v in the column, the normalized value
\* is 100 * (v - min) / (max - min) rounded to 1 decimal, min and max being
\* the smallest and the largest number present in the column over all the
\* records given to the charts, nulls not counted; it lies in [0, 100] and v
\* is kept beside it
C20_NormalizedOverPresentValues ==
  radar.done =>
    \A c \in 1..Len(radar.value.data) :
      \A j \in 1..Len(radar.value.data[c].actual) :
        LET entry  == radar.value.data[c]
            v      == entry.actual[j]
            values == PresentValues(chartInput, entry.originalColumnName)
        IN (v.t = "number") =>
             /\ v = Get(radar.value.filaments[j], entry.originalColumnName)
             /\ ~numLess(entry.filament[j].v, Num(0).v)
             /\ ~numLess(Num(100).v, entry.filament[j].v)
             /\ (numMax(values) # numMin(values)) =>
                  entry.filament[j] = toFixed1([num |-> numSub(v.v, numMin(values)),
                                                den |-> numSub(numMax(values), numMin(values))])

\* a sheet name that the selection looks for
Qualifies(name) ==
  /\ includes(toLowerCase(name), STR_filament)
  /\ ~includes(toLowerCase(name), STR_flexible)

\* C21: the rows that parseExcelFile reads are those of the first sheet, in
\* workbook order, whose lowercased name contains "filament" and does not
\* contain "flexible", and those of the first sheet of the workbook when no
\* sheet name qualifies
C21_SelectedSheet ==
  (book # NoWorkbook) =>
    LET names      == book.SheetNames
        qualifying == {i \in 1..Len(names) : Qualifies(names[i])}
    IN IF qualifying = {}
       THEN rawData = book.Sheets[names[1]]
       ELSE \E i \in qualifying :
              /\ \A j \in qualifying : i <= j
              /\ rawData = book.Sheets[names[i]]

\* C21 witness: the first sheet is named after the flexible filaments and
\* the second one qualifies: the rows of the second sheet were read
C21_Witness ==
  /\ book # NoWorkbook
  /\ book.SheetNames = <<NAME_Flexible, NAME_Filaments>>
  /\ rawData = SheetB
  /\ result.settled = "resolved"

\* a and b are the same number
SameNumber(a, b) == ~numLess(a.v, b.v) /\ ~numLess(b.v, a.v) /\ a.v.k # "nan" /\ b.v.k # "nan"

\* a <= b
AtMost(a, b) == numLess(a.v, b.v) \/ SameNumber(a, b)

\* v stands at the 0-based index k of the values sorted ascending: at most k
\* values are smaller and more than k values are not greater
StandsAt(values, k, v) ==
  /\ \E i \in 1..Len(values) : SameNumber(values[i], v)
  /\ Cardinality({i \in 1..Len(values) : numLess(values[i].v, v.v)}) <= k
  /\ Cardinality({i \in 1..Len(values) : AtMost(values[i], v)}) > k

\* C22: for a non-empty array of n numbers calculateStatistics returns q1,
\* median and q3 equal to the elements at the 0-based indices floor(n/4),
\* floor(n/2) and floor(3n/4) of the array sorted ascending, min and max
\* equal to its first and last elements and count equal to n, so that
\* min <= q1 <= median <= q3 <= max; for an empty array it returns null;
\* the array given is left in its original order
C22_OrderStatistics ==
  stats.done =>
    LET values == stats.value.values
        r      == stats.value.result
        n      == Len(values)
    IN /\ xs = values
       /\ (n = 0) => (r = Null)
       /\ (n > 0) =>
            /\ r.t = "object"
            /\ StandsAt(values, n \div 4, r.v.q1)
            /\ StandsAt(values, n \div 2, r.v.median)
            /\ StandsAt(values, (3 * n) \div 4, r.v.q3)
            /\ StandsAt(values, 0, r.v.min)
            /\ StandsAt(values, n - 1, r.v.max)
            /\ r.v.count = n
            /\ AtMost(r.v.min, r.v.q1)
            /\ AtMost(r.v.q1, r.v.median)
            /\ AtMost(r.v.median, r.v.q3)
            /\ AtMost(r.v.q3, r.v.max)

\* C22 witness: the statistics of 3, 1, 2, 1: the quartiles are 1, 2 and 3
\* and the array still starts with 3
C22_Witness ==
  /\ stats.done
  /\ xs = <<Num(3), Num(1), Num(2), Num(1)>>
  /\ stats.value.result.t = "object"
  /\ stats.value.result.v.q1 = Num(1)
  /\ stats.value.result.v.median = Num(2)
  /\ stats.value.result.v.q3 = Num(3)

\* the quotient scaled by 100 is 0, is 100, lies in [0, 100]
IsZeroQuotient(q) ==
  /\ ~IsNaNQuotient(q)
  /\ q.num.k = "fin"
  /\ q.den.k = "inf" \/ q.num.m = 0

IsFullQuotient(q) ==
  IsRatio(q) /\ ~numLess(q.num, q.den) /\ ~numLess(q.den, q.num)

InPercentRange(q) ==
  \/ IsZeroQuotient(q)
  \/ /\ IsRatio(q)
     /\ numLess(Zero, q.den)
     /\ ~numLess(q.num, Zero)
     /\ ~numLess(q.den, q.num)

\* C23: for an array of finite numbers normalizeMinMax returns an array of
\* the same length whose every element lies in [0, 100], with each
\* occurrence of the minimum mapped to 0 and of the maximum to 100 when the
\* range is not zero, and with every element mapped to 0 when all the values
\* are equal
C23_NormalizedWithinPercent ==
  (normalized.done /\ \A i \in 1..Len(xs) : isFinite(xs[i])) =>
    LET out      == normalized.value
        smallest == {i \in 1..Len(xs) : \A j \in 1..Len(xs) : ~numLess(xs[j].v, xs[i].v)}
        largest  == {i \in 1..Len(xs) : \A j \in 1..Len(xs) : ~numLess(xs[i].v, xs[j].v)}
    IN /\ Len(out) = Len(xs)
       /\ \A i \in 1..Len(out) : InPercentRange(out[i])
       /\ IF smallest = largest
          THEN \A i \in 1..Len(out) : IsZeroQuotient(out[i])
          ELSE /\ \A i \in smallest : IsZeroQuotient(out[i])
               /\ \A i \in largest : IsFullQuotient(out[i])

\* two numbers of the same kind and value
SameDouble(a, b) ==
  /\ a.k = b.k
  /\ (a.k = "inf") => (a.m = b.m)
  /\ (a.k = "fin") => (~numLess(a, b) /\ ~numLess(b, a))

\* the correlation num / sqrt(rad) is 1
IsOneCorrelation(c) ==
  /\ c.num.k = "fin" /\ c.rad.k = "fin"
  /\ numLess(Zero, c.num)
  /\ SameDouble(dblMul(c.num, c.num), c.rad)

\* C24: for arrays x and y of equal length at least 2,
\* calculatePearsonCorrelation(x, y) equals calculatePearsonCorrelation(y, x),
\* and calculatePearsonCorrelation(x, x) equals 1 whenever the values of x
\* are not all equal
C24_CorrelationSymmetric ==
  (correlation.done /\ Len(correlation.value.x) = Len(correlation.value.y)
                    /\ Len(correlation.value.x) >= 2) =>
    LET x == correlation.value.x
        y == correlation.value.y
        r == correlation.value.r
    IN /\ SameDouble(r.num, calculatePearsonCorrelation(y, x).num)
       /\ SameDouble(r.rad, calculatePearsonCorrelation(y, x).rad)
       /\ (x = y /\ \E i, j \in 1..Len(x) : numLess(x[i].v, x[j].v)) => IsOneCorrelation(r)

\* the quotient is a finite number
IsFiniteQuotient(q) == IsRatio(q) \/ (q.num.k = "fin" /\ q.den.k = "inf")

\* C27: calculateLinearRegression returns a finite slope and a finite
\* intercept for two arrays of finite numbers of the same length, at least
\* 2, also when all the values of x are equal
C27_RegressionFinite ==
  (line.done /\ Len(xs) = Len(ys) /\ Len(xs) >= 2
             /\ \A i \in 1..Len(xs) : isFinite(xs[i]) /\ isFinite(ys[i])) =>
    /\ IsFiniteQuotient(line.value.slope)
    /\ IsFiniteQuotient(line.value.intercept)

\* C25: filteredData does not raise for a dataset that parseExcelFile
\* resolves with, whatever the state of the filters: with a search text, a
\* record whose Brand, Filament type, Base or Fibers was mapped to a number
\* is matched or not matched
C25_FilteringNeverRaises ==
  (filtered.done /\ rawData # <<>>) => ~filtered.value.threw

\* C26: after any sequence of handleNumericFilterChange calls, the min of
\* every range stored in numericFilters is at most its max
C26_RangesOrdered ==
  \A column \in Range(ObjectKeys(criteria.numericFilters)) :
    LET range == criteria.numericFilters.val[column]
    IN (typeof(range.min) = "number" /\ typeof(range.max) = "number") =>
         ~numLess(range.max.v, range.min.v)

\* the dataset that the mount effect of App would read from the item
persisted == loadSaved(storage, <<>>)

\* every operation that was started has completed
Settled == mounted /\ uploads = <<>>

\* C28: once the operations of App have completed (the load on mount,
\* uploads that succeeded or failed, also by a failed write to storage, and
\* unloads), the dataset persisted under 'mytechfun-filament-data' is the
\* dataset held in the state of App; both are empty when nothing is held.
C28_StorageMirrorsState ==
  Settled => /\ persisted = JSONstringify(data).value
             /\ (data = <<>>) => storage.kind # "json" \/ storage.value = <<>>

\* C29: loading is true exactly while a call of handleFileUpload has
\* started and not finished, also when a second call starts before the
\* first has finished, and false once every call has finished.
C29_LoadingWhilePending == loading <=> (uploads # <<>>)

\* Number(n.toFixed(10)) for a number n, finite or not
roundedTo10(n) == IF isFinite(n) THEN toFixed10(n.v) ELSE n

\* the text of the cell, trimmed, when the cell is a string that
\* Number reads as a number
NumericCell ==
  /\ typeof(value) = "string"
  /\ trim(value.v) # <<>>
  /\ IsNumericText(trim(value.v))

\* C30: a string cell of a column that holds no link, whose trimmed text
\* Number reads as the number n (exponent or hexadecimal notation and a
\* sign included), is stored by validateAndSanitizeRow as n rounded to 10
\* decimal digits.
C30_NumericTextStoredAsItsNumber ==
  (rowDone /\ NumericCell) =>
    /\ sanitized.kind = "record"
    /\ typeof(Get(sanitized.obj, KEY_Tensile_kg)) = "number"
    /\ SameNumber(Get(sanitized.obj, KEY_Tensile_kg), roundedTo10(StringToNumber(trim(value.v))))
====
